---- MODULE Spec2Model ----
(***************************************************************************)
(* Model of the grafana-zabbix backend: the authenticating Zabbix API      *)
(* client (pkg/api_client.go), the datasource cache (pkg/cache.go) and the *)
(* backend dispatcher's getCachedDatasource.                               *)
(*                                                                         *)
(* Strings built with fmt are modelled as tuples of their pieces, so that  *)
(* "Code 0: 'Not authorised.' " and "Not authorised." are different values *)
(* exactly as the Go strings are.                                          *)
(***************************************************************************)
EXTENDS Integers, Sequences, FiniteSets, TLC

(* ------------------------------ bounds --------------------------------- *)

\* number of request-handling flows that share one API client / one backend
NumFlows == 2

\* total number of RawRequest invocations started in one behaviour
MaxInvocations == 2

\* number of getCachedDatasource calls started in one behaviour
MaxQueries == 3

\* number of Set and Get calls made on the bare cache in one behaviour
MaxCacheOps == 4

\* the clock stops after this many ticks
MaxTime == 3

\* default expiration and cleanup interval the caches are built with, in ticks
TTL == 2
CleanupInterval == 3

\* number of Query calls started in one behaviour
MaxRequests == 2

\* time ranges start and end up to this many days before now
MaxRangeDays == 10

Flows == 1..NumFlows

(* --------------------------- program constants ------------------------- *)

\* api_client.go:61  for attempt := 0; attempt <= 3; attempt++
MaxAttempt == 3

(* ------------------------------ values --------------------------------- *)

\* Go's empty string / nil error / nil json.RawMessage
NoToken == ""
NoErr == <<>>
NilResult == [type |-> "nil", val |-> ""]

\* session ids handed out by user.login
Tokens == {"tok1", "tok2"}

\* methods passed to RawRequest by the typed fetches and by TestConnection
Methods == {"item.get", "apiinfo.version"}

JSONString(s) == [type |-> "string", val |-> s]
JSONArray == [type |-> "array", val |-> "[]"]

\* raw JSON values a response can carry in its result field
Results == {JSONString(t) : t \in Tokens} \cup {JSONArray}

NoErrorObj == [present |-> FALSE, code |-> "0", message |-> "", data |-> ""]
ErrorObj(m, d) == [present |-> TRUE, code |-> "0", message |-> m, data |-> d]

\* response bodies: malformed JSON, the JSON literal null, {"result":r},
\* {"error":{...}} and {"result":r,"error":{...}}
BadJSON == [valid |-> FALSE, null |-> FALSE, result |-> NilResult, error |-> NoErrorObj]
NullJSON == [valid |-> TRUE, null |-> TRUE, result |-> NilResult, error |-> NoErrorObj]
ResultBody(r) == [valid |-> TRUE, null |-> FALSE, result |-> r, error |-> NoErrorObj]
ErrorBody(r, m, d) == [valid |-> TRUE, null |-> FALSE, result |-> r, error |-> ErrorObj(m, d)]

Bodies ==
    {BadJSON, NullJSON}
        \cup {ResultBody(r) : r \in Results}
        \cup {ErrorBody(NilResult, "Not authorised.", ""),
              ErrorBody(NilResult, "Invalid params.", "Not authorised."),
              ErrorBody(JSONString("tok1"), "Message", "Data")}

\* errors a response body reader can fail with (returned verbatim by ioutil.ReadAll)
ReadErrs == {"unexpected EOF", "Not authorised.", "Not authorized.",
             "Session terminated, re-login, please."}

\* what one HTTP exchange can give back to makeHTTPRequest
Exchanges ==
    {[kind |-> "doErr", status |-> 0, body |-> BadJSON, msg |-> "connection refused"]}
        \cup {[kind |-> "readErr", status |-> 200, body |-> BadJSON, msg |-> m] : m \in ReadErrs}
        \cup {[kind |-> "response", status |-> 500, body |-> ResultBody(JSONString("tok1")), msg |-> ""]}
        \cup {[kind |-> "response", status |-> 200, body |-> b, msg |-> ""] : b \in Bodies}

\* connection descriptors (datasource.DatasourceInfo)
NoSecure == [username |-> [present |-> FALSE, val |-> ""],
             password |-> [present |-> FALSE, val |-> ""]]
JsonData(ok, u, p) == [valid |-> ok, username |-> u, password |-> p]

basicDatasourceInfo ==
    [id |-> 1, orgId |-> 0, name |-> "TestDatasource", url |-> "sameUrl",
     jsonData |-> JsonData(TRUE, "username", "password"), secure |-> NoSecure]
altDatasourceInfo ==
    [id |-> 2, orgId |-> 0, name |-> "AnotherDatasource", url |-> "",
     jsonData |-> JsonData(FALSE, "", ""), secure |-> NoSecure]
secureDatasourceInfo ==
    [id |-> 3, orgId |-> 1, name |-> "Secure", url |-> "sameUrl",
     jsonData |-> JsonData(TRUE, "username", ""),
     secure |-> [username |-> [present |-> FALSE, val |-> ""],
                 password |-> [present |-> TRUE, val |-> "secret"]]]
noUserDatasourceInfo ==
    [id |-> 4, orgId |-> 1, name |-> "NoUser", url |-> "sameUrl",
     jsonData |-> JsonData(TRUE, "", "password"), secure |-> NoSecure]
badUrlDatasourceInfo ==
    [id |-> 5, orgId |-> 1, name |-> "BadUrl", url |-> "://bad",
     jsonData |-> JsonData(TRUE, "username", "password"), secure |-> NoSecure]

DsInfos == {basicDatasourceInfo, altDatasourceInfo, secureDatasourceInfo,
            noUserDatasourceInfo, badUrlDatasourceInfo}

\* the descriptors the shared client is exercised with
ClientDsInfos == {basicDatasourceInfo, altDatasourceInfo, noUserDatasourceInfo,
                  badUrlDatasourceInfo}

(* ------------------------------- state --------------------------------- *)

VARIABLES
    authToken,    \* ZabbixAPIClient.authToken of the shared client
    dsInfo,       \* the connection descriptor the client's calls carry
    pc,           \* per flow: position inside RawRequest
    method,       \* per flow: RawRequest's method argument
    attempt,      \* per flow: the loop variable
    sentAuth,     \* per flow: the auth argument of the call in flight
    result,       \* per flow: named return value result
    err,          \* per flow: named return value err
    log,          \* per flow: calls, responses and token writes of this invocation
    invocations,  \* number of RawRequest invocations started so far
    history       \* whether the flows' logs are kept

clientVars == <<authToken, dsInfo, pc, method, attempt, sentAuth, result, err, log,
                invocations, history>>

VARIABLES
    now,          \* the clock, in ticks
    cache,        \* a Cache: default expiration, cleanup interval, items
    lastSweep,    \* when the cache's janitor last ran
    datasources,  \* the ZabbixDatasource instances created so far
    bpc,          \* per flow: position inside getCachedDatasource
    breq,         \* per flow: the connection descriptor of its request
    bgot,         \* per flow: the instance getCachedDatasource returned
    bat,          \* per flow: whether the clock has stood still since its call started
    queries,      \* number of getCachedDatasource calls started so far
    lastSet,      \* per key: the most recent Set (when, what)
    obs,          \* what the most recent Get on the bare cache observed
    cacheOps      \* number of Set and Get calls made on the bare cache

backendVars == <<now, cache, lastSweep, datasources, bpc, breq, bgot, bat, queries,
                 lastSet, obs, cacheOps>>

VARIABLES
    call,         \* the pure function applied last and its arguments
    ret,          \* what it returned
    chain         \* the timeseries query that runs on a mocked server

pureVars == <<call, ret, chain>>

VARIABLES
    qpc,          \* per flow: position inside ZabbixBackend.Query
    qreq,         \* per flow: tsdbReq.Queries of its request
    qops,         \* per flow: the Datasource operations Query has invoked
    qraw,         \* per flow: the RawRequest calls the operation has made
    qresp,        \* per flow: named return value resp of Query
    qerr,         \* per flow: named return value err of Query
    qfault,       \* per flow: whether Query has recovered from a panic
    dsTokens,     \* per ZabbixDatasource instance: its client's authToken at rest
    requests,     \* number of Query calls started so far
    faults        \* number of panics Query has recovered from so far

dispatchVars == <<qpc, qreq, qops, qraw, qresp, qerr, qfault, dsTokens, requests, faults>>

\* what the steps of the client, of the backend, and the pure calls leave alone
nonClientVars == <<backendVars, dispatchVars, pureVars>>
nonBackendVars == <<clientVars, dispatchVars, pureVars>>
nonPureVars == <<clientVars, backendVars, dispatchVars>>

vars == <<clientVars, backendVars, dispatchVars, pureVars>>

(* --------------------------- pure functions ---------------------------- *)

\* what a function returning (value, error) gives back, or a runtime panic
Ret(v, e) == [panic |-> FALSE, val |-> v, err |-> e]
Panic == [panic |-> TRUE, val |-> NilResult, err |-> NoErr]

\* isNotAuthorized without the British spelling
isNotAuthorized_NoBritish(message) ==
    \/ message = <<"Session terminated, re-login, please.">>
    \/ message = <<"Not authorized.">>

\* api_client.go:222-226
isNotAuthorized(message) ==
    \/ message = <<"Session terminated, re-login, please.">>
    \/ message = <<"Not authorised.">>
    \/ message = <<"Not authorized.">>

\* api_client.go:203-220: the body on HTTP 200, an error otherwise
makeHTTPRequest(x) ==
    IF x.kind = "doErr" THEN Ret(BadJSON, <<"Post: ", x.msg>>)
    ELSE IF x.kind = "readErr" THEN Ret(BadJSON, <<x.msg>>)
    ELSE IF x.status # 200 THEN Ret(BadJSON, <<"Error returned from Zabbix service: ", "500">>)
    ELSE Ret(x.body, NoErr)

\* api_client.go:188-201: unmarshalling the literal null leaves the
\* *zabbixResponse nil, and reading its Error field then faults
handleAPIResult(response) ==
    IF ~response.valid THEN Ret(NilResult, <<"invalid character">>)
    ELSE IF response.null THEN Panic
    ELSE IF response.error.present
        THEN Ret(NilResult, <<"Code ", response.error.code, ": '",
                              response.error.message, "' ", response.error.data>>)
    ELSE Ret(response.result, NoErr)

\* api_client.go:139-142: url.Parse(apiURL)
URLParses(apiURL) == apiURL # "://bad"
URLParseError(apiURL) == <<"parse ", apiURL, ": missing protocol scheme">>

\* an envelope that carries every token it is given
apiRequest_AuthForAnyMethod(m, params, auth) ==
    [jsonrpc |-> "2.0", id |-> 2, method |-> m, params |-> params,
     hasAuth |-> auth # "",
     auth |-> auth]

\* api_client.go:145-154: the JSON-RPC envelope; auth only when a token is
\* given and the method is not the version check
apiRequest(m, params, auth) ==
    [jsonrpc |-> "2.0", id |-> 2, method |-> m, params |-> params,
     hasAuth |-> (auth # "" /\ m # "apiinfo.version"),
     auth |-> IF auth # "" /\ m # "apiinfo.version" THEN auth ELSE ""]

\* api_client.go:177-185: the part of zabbixAPIRequest after the exchange
zabbixAPIResponse(x) ==
    LET response == makeHTTPRequest(x)
    IN  IF response.err # NoErr THEN Ret(NilResult, response.err)
        ELSE handleAPIResult(response.val)

\* credentials read from the plaintext JSON config first
Credentials_PlaintextFirst(ds) ==
    LET zabbixUsername == IF ds.jsonData.username # ""
                              THEN ds.jsonData.username ELSE ds.secure.username.val
        zabbixPassword == IF ds.jsonData.password # ""
                              THEN ds.jsonData.password ELSE ds.secure.password.val
    IN  IF ~ds.jsonData.valid
            THEN [ok |-> FALSE, user |-> "", password |-> "", err |-> <<"invalid character">>]
        ELSE IF zabbixUsername = ""
            THEN [ok |-> FALSE, user |-> "", password |-> "",
                  err |-> <<"Login failed -- no username provided">>]
        ELSE IF zabbixPassword = ""
            THEN [ok |-> FALSE, user |-> "", password |-> "",
                  err |-> <<"Login failed -- no password provided">>]
        ELSE [ok |-> TRUE, user |-> zabbixUsername, password |-> zabbixPassword, err |-> NoErr]

\* api_client.go:83-108: the credentials loginWithDs logs in with, the
\* decrypted secure value taking priority over the plaintext JSON one
Credentials(ds) ==
    LET zabbixUsername == IF ds.secure.username.present
                              THEN ds.secure.username.val ELSE ds.jsonData.username
        zabbixPassword == IF ds.secure.password.present
                              THEN ds.secure.password.val ELSE ds.jsonData.password
    IN  IF ~ds.jsonData.valid
            THEN [ok |-> FALSE, user |-> "", password |-> "", err |-> <<"invalid character">>]
        ELSE IF zabbixUsername = ""
            THEN [ok |-> FALSE, user |-> "", password |-> "",
                  err |-> <<"Login failed -- no username provided">>]
        ELSE IF zabbixPassword = ""
            THEN [ok |-> FALSE, user |-> "", password |-> "",
                  err |-> <<"Login failed -- no password provided">>]
        ELSE [ok |-> TRUE, user |-> zabbixUsername, password |-> zabbixPassword, err |-> NoErr]

\* api_client.go:129-135 and datasource.go:369-370: json.Unmarshal(result, &s)
\* into a Go string; the JSON literal null leaves the string empty and is no
\* error, any other non-string text (and no text at all) is one
UnmarshalString(raw) ==
    IF raw.type = "string" THEN Ret(raw, NoErr)
    ELSE IF raw.type = "null" THEN Ret(JSONString(""), NoErr)
    ELSE Ret(NilResult, <<"json: cannot unmarshal into Go value of type string">>)

\* api_client.go:66
AuthenticationFailure(e) == <<"Authentication failure: ">> \o e

\* a loop that allows one attempt more
LoopContinues_OneMore(a) == a <= MaxAttempt + 1

\* api_client.go:61: the loop condition
LoopContinues(a) == a <= MaxAttempt

\* a token check that never asks for a login
NeedsLogin_Never(tok) == FALSE

\* api_client.go:62
NeedsLogin(tok) == tok = NoToken

\* a loop that retries after every error
ShouldBreak_OnlyOnSuccess(e) == e = NoErr

\* api_client.go:73: break out of the retry loop
ShouldBreak(e) == e = NoErr \/ (e # NoErr /\ ~isNotAuthorized(e))

(* ------------------------------ the log -------------------------------- *)

\* the messages the retry is specified for
UnauthorizedMessages ==
    {<<"Session terminated, re-login, please.">>, <<"Not authorised.">>, <<"Not authorized.">>}

\* the message of the JSON-RPC error object an exchange delivered, "" if none
ApiErrorMessage(x) ==
    IF x.kind = "response" /\ x.status = 200 /\ x.body.valid /\ ~x.body.null
           /\ x.body.error.present
        THEN x.body.error.message
        ELSE ""

\* one entry of a flow's log: ev is "call" (RawRequest is entered), "login",
\* "loginResp", "store", "target", "targetResp", "clear" or "panic"; tok is
\* the token held, sent, stored or cleared; hasAuth tells whether the request
\* on the wire had an auth field; result and err are what the call gave back;
\* apiMsg is the message of the error object received
Ev(ev, tok, hasAuth, res, e, apiMsg) ==
    [ev |-> ev, tok |-> tok, hasAuth |-> hasAuth, result |-> res, err |-> e,
     apiMsg |-> apiMsg]

CallEv(ev, req, tok) == Ev(ev, tok, req.hasAuth, NilResult, NoErr, "")
RespEv(ev, res, e, x) == Ev(ev, "", FALSE, res, e, ApiErrorMessage(x))
TokenEv(ev, tok) == Ev(ev, tok, FALSE, NilResult, NoErr, "")

\* the log of flow f extended by entries
Logged(f, entries) == IF history THEN log[f] \o entries ELSE <<>>

NoExchange == [kind |-> "none", status |-> 0, body |-> BadJSON, msg |-> ""]
NoParams == [user |-> "", password |-> ""]

(* ------------------- RawRequest (api_client.go:58-80) ------------------ *)

\* a flow calls RawRequest(ctx, dsInfo, method, params)
Start(f) ==
    /\ pc[f] = "idle"
    /\ UNCHANGED nonClientVars
    /\ invocations < MaxInvocations
    /\ \E m \in Methods : method' = [method EXCEPT ![f] = m]
    /\ pc' = [pc EXCEPT ![f] = "loop"]
    /\ attempt' = [attempt EXCEPT ![f] = 0]
    /\ sentAuth' = [sentAuth EXCEPT ![f] = NoToken]
    /\ result' = [result EXCEPT ![f] = NilResult]
    /\ err' = [err EXCEPT ![f] = NoErr]
    /\ log' = [log EXCEPT ![f] = Logged(f, <<TokenEv("call", authToken)>>)]
    /\ invocations' = invocations + 1
    /\ UNCHANGED <<authToken, dsInfo, history>>

\* the same call when no other flow is inside RawRequest
StartSeq(f) ==
    /\ \A g \in Flows : pc[g] = "idle"
    /\ Start(f)

\* line 79 (or the unwinding of a panic): the call is over and its frame is
\* dropped
Return(f) ==
    /\ pc[f] \in {"done", "panicked"}
    /\ UNCHANGED nonClientVars
    /\ pc' = [pc EXCEPT ![f] = "idle"]
    /\ method' = [method EXCEPT ![f] = "item.get"]
    /\ attempt' = [attempt EXCEPT ![f] = 0]
    /\ sentAuth' = [sentAuth EXCEPT ![f] = NoToken]
    /\ result' = [result EXCEPT ![f] = NilResult]
    /\ err' = [err EXCEPT ![f] = NoErr]
    /\ log' = [log EXCEPT ![f] = <<>>]
    /\ UNCHANGED <<authToken, dsInfo, invocations, history>>

\* lines 61-62 and 79: the loop condition and the token check
LoopHead(f) ==
    /\ pc[f] = "loop"
    /\ UNCHANGED nonClientVars
    /\ pc' = [pc EXCEPT ![f] =
                 IF ~LoopContinues(attempt[f]) THEN "done"
                 ELSE IF NeedsLogin(authToken) THEN "login"
                 ELSE "request"]
    /\ UNCHANGED <<authToken, dsInfo, method, attempt, sentAuth, result, err, log, invocations, history>>

\* a failed login that hands the cause back as it is
LoginFailed_Unwrapped(f, e, entries) ==
    /\ pc' = [pc EXCEPT ![f] = "done"]
    /\ result' = [result EXCEPT ![f] = NilResult]
    /\ err' = [err EXCEPT ![f] = e]
    /\ log' = [log EXCEPT ![f] = Logged(f, entries)]
    /\ UNCHANGED <<authToken, dsInfo, method, attempt, sentAuth, invocations, history>>

\* lines 65-67: return nil, fmt.Errorf("Authentication failure: %w", err)
LoginFailed(f, e, entries) ==
    /\ pc' = [pc EXCEPT ![f] = "done"]
    /\ result' = [result EXCEPT ![f] = NilResult]
    /\ err' = [err EXCEPT ![f] = AuthenticationFailure(e)]
    /\ log' = [log EXCEPT ![f] = Logged(f, entries)]
    /\ UNCHANGED <<authToken, dsInfo, method, attempt, sentAuth, invocations, history>>

\* line 64: loginWithDs up to the moment user.login is on the wire
Login(f) ==
    /\ pc[f] = "login"
    /\ UNCHANGED nonClientVars
    /\ LET c == Credentials(dsInfo)
       IN  IF ~c.ok THEN LoginFailed(f, c.err, <<>>)
           ELSE IF ~URLParses(dsInfo.url) THEN LoginFailed(f, URLParseError(dsInfo.url), <<>>)
           ELSE /\ pc' = [pc EXCEPT ![f] = "loginWait"]
                /\ log' = [log EXCEPT ![f] = Logged(f,
                              <<CallEv("login",
                                       apiRequest("user.login",
                                                  [user |-> c.user, password |-> c.password],
                                                  ""),
                                       "")>>)]
                /\ UNCHANGED <<authToken, dsInfo, method, attempt, sentAuth, result, err,
                               invocations, history>>

\* lines 64-68: user.login answers; on success ds.authToken = auth
LoginReturn(f) ==
    /\ pc[f] = "loginWait"
    /\ UNCHANGED nonClientVars
    /\ \E x \in Exchanges :
        LET r == zabbixAPIResponse(x)
            auth == UnmarshalString(r.val)
        IN  IF r.panic
                THEN /\ pc' = [pc EXCEPT ![f] = "panicked"]
                     /\ log' = [log EXCEPT ![f] = Logged(f, <<RespEv("panic", NilResult, NoErr, x)>>)]
                     /\ UNCHANGED <<authToken, dsInfo, method, attempt, sentAuth, result, err,
                                    invocations, history>>
            ELSE IF r.err # NoErr
                THEN LoginFailed(f, r.err, <<RespEv("loginResp", NilResult, r.err, x)>>)
            ELSE IF auth.err # NoErr
                THEN LoginFailed(f, auth.err, <<RespEv("loginResp", NilResult, auth.err, x)>>)
            ELSE /\ authToken' = auth.val.val
                 /\ pc' = [pc EXCEPT ![f] = "request"]
                 /\ log' = [log EXCEPT ![f] = Logged(f,
                               <<RespEv("loginResp", r.val, NoErr, x),
                                 TokenEv("store", auth.val.val)>>)]
                 /\ UNCHANGED <<dsInfo, method, attempt, sentAuth, result, err, invocations, history>>

\* a retry that does not write the cleared token back to the client
AfterAttempt_TokenKept(f, res, e, entries) ==
    /\ result' = [result EXCEPT ![f] = res]
    /\ err' = [err EXCEPT ![f] = e]
    /\ IF ShouldBreak(e)
           THEN /\ pc' = [pc EXCEPT ![f] = "done"]
                /\ log' = [log EXCEPT ![f] = Logged(f, entries)]
                /\ UNCHANGED <<authToken, attempt>>
           ELSE /\ authToken' = authToken
                /\ attempt' = [attempt EXCEPT ![f] = attempt[f] + 1]
                /\ pc' = [pc EXCEPT ![f] = "loop"]
                /\ log' = [log EXCEPT ![f] = Logged(f, entries \o
                              <<TokenEv("clear", authToken)>>)]
    /\ UNCHANGED <<dsInfo, method, sentAuth, invocations, history>>

\* lines 73-77: keep the outcome of the attempt, then break or clear and retry
AfterAttempt(f, res, e, entries) ==
    /\ result' = [result EXCEPT ![f] = res]
    /\ err' = [err EXCEPT ![f] = e]
    /\ IF ShouldBreak(e)
           THEN /\ pc' = [pc EXCEPT ![f] = "done"]
                /\ log' = [log EXCEPT ![f] = Logged(f, entries)]
                /\ UNCHANGED <<authToken, attempt>>
           ELSE /\ authToken' = NoToken
                /\ attempt' = [attempt EXCEPT ![f] = attempt[f] + 1]
                /\ pc' = [pc EXCEPT ![f] = "loop"]
                /\ log' = [log EXCEPT ![f] = Logged(f, entries \o
                              <<TokenEv("clear", authToken)>>)]
    /\ UNCHANGED <<dsInfo, method, sentAuth, invocations, history>>

\* line 71: ds.authToken is read and the target call goes on the wire
SendRequest(f) ==
    /\ pc[f] = "request"
    /\ UNCHANGED nonClientVars
    /\ IF ~URLParses(dsInfo.url)
           THEN AfterAttempt(f, NilResult, URLParseError(dsInfo.url),
                             <<RespEv("targetResp", NilResult, URLParseError(dsInfo.url),
                                      NoExchange)>>)
           ELSE /\ sentAuth' = [sentAuth EXCEPT ![f] = authToken]
                /\ pc' = [pc EXCEPT ![f] = "wait"]
                /\ log' = [log EXCEPT ![f] = Logged(f,
                              <<CallEv("target", apiRequest(method[f], NoParams, authToken),
                                       authToken)>>)]
                /\ UNCHANGED <<authToken, dsInfo, method, attempt, result, err, invocations, history>>

\* lines 71-77: the target call answers
RecvResponse(f) ==
    /\ pc[f] = "wait"
    /\ UNCHANGED nonClientVars
    /\ \E x \in Exchanges :
        LET r == zabbixAPIResponse(x)
        IN  IF r.panic
                THEN /\ pc' = [pc EXCEPT ![f] = "panicked"]
                     /\ log' = [log EXCEPT ![f] = Logged(f, <<RespEv("panic", NilResult, NoErr, x)>>)]
                     /\ UNCHANGED <<authToken, dsInfo, method, attempt, sentAuth, result, err,
                                    invocations, history>>
                ELSE AfterAttempt(f, r.val, r.err, <<RespEv("targetResp", r.val, r.err, x)>>)

(* ----------------------- Cache (pkg/cache.go) -------------------------- *)

\* go-cache (github.com/patrickmn/go-cache) is not part of the sources; its
\* operations follow the contract of section 4.1: an entry expires one
\* default expiration after it was set, Get rechecks the expiry inline, and a
\* janitor deletes expired entries every cleanup interval.

NoItems == <<>>

\* cache.New(defaultExpiration, cleanupInterval)
goCacheNew(defaultExpiration, cleanupInterval) ==
    [defaultExpiration |-> defaultExpiration, interval |-> cleanupInterval,
     items |-> NoItems]

\* whether an item has expired at time t
Expired(item, t) == t >= item.expiration

\* cache.SetDefault(k, x) at time t
goCacheSetDefault(c, k, x, t) ==
    [c EXCEPT !.items =
        [j \in DOMAIN c.items \cup {k} |->
            IF j = k THEN [object |-> x, expiration |-> t + c.defaultExpiration]
            ELSE c.items[j]]]

\* cache.Get(k) at time t
goCacheGet(c, k, t) ==
    IF k \in DOMAIN c.items /\ ~Expired(c.items[k], t)
        THEN [val |-> c.items[k].object, found |-> TRUE]
        ELSE [val |-> 0, found |-> FALSE]

\* cache.DeleteExpired() at time t
goCacheDeleteExpired(c, t) ==
    [c EXCEPT !.items =
        [j \in {i \in DOMAIN c.items : ~Expired(c.items[i], t)} |-> c.items[j]]]

\* a NewCache that hands its two durations over in the wrong order
NewCache_Swapped(ttl, cleanupInterval) == goCacheNew(cleanupInterval, ttl)

\* cache.go:19-23
NewCache(ttl, cleanupInterval) == goCacheNew(ttl, cleanupInterval)

\* cache.go:26-28
CacheSet(c, request, response, t) == goCacheSetDefault(c, request, response, t)

\* cache.go:31-33
CacheGet(c, request, t) == goCacheGet(c, request, t)

\* cache.go:43-49: the SHA-1 digest of the JSON encoding of the descriptor
\* a member of the JSON object; a field tagged omitempty is left out when it
\* holds its zero value
JSONMember(name, value, zero) == IF value = zero THEN <<>> ELSE <<<<name, value>>>>

\* the members of the map of decrypted secrets, which encoding/json writes
\* in the order of their keys
SecureMembers(secure) ==
    (IF secure.password.present THEN <<<<"password", secure.password.val>>>> ELSE <<>>)
        \o (IF secure.username.present THEN <<<<"username", secure.username.val>>>>
            ELSE <<>>)

\* an encoding that leaves the decrypted secrets out
JSONEncode_NoSecrets(d) ==
    JSONMember("id", d.id, 0) \o JSONMember("orgId", d.orgId, 0)
        \o JSONMember("name", d.name, "") \o JSONMember("url", d.url, "")
        \o JSONMember("jsonData", d.jsonData, JsonData(FALSE, "", ""))

JSONEncode(d) ==
    JSONMember("id", d.id, 0) \o JSONMember("orgId", d.orgId, 0)
        \o JSONMember("name", d.name, "") \o JSONMember("url", d.url, "")
        \o JSONMember("jsonData", d.jsonData, JsonData(FALSE, "", ""))
        \o JSONMember("decryptedSecureJsonData", SecureMembers(d.secure), <<>>)
HashDatasourceInfo(d) == <<"sha1", JSONEncode(d)>>

\* the descriptors requests arrive with
BackendDsInfos == {basicDatasourceInfo, altDatasourceInfo}

CacheKeys == {HashDatasourceInfo(d) : d \in BackendDsInfos}
CacheValues == {1, 2}

NoSet == [set |-> FALSE, at |-> 0, val |-> 0]
NoObs == [valid |-> FALSE, key |-> <<>>, at |-> 0, val |-> 0, found |-> FALSE,
          set |-> FALSE, setAt |-> 0, setVal |-> 0, swept |-> FALSE]

\* the clock advances; only the cache reads it, and Query reads the cache
\* once, so a tick while a Query call runs is the same as one before it
Tick ==
    /\ now < MaxTime
    /\ \A f \in Flows : qpc[f] = "idle"
    /\ now' = now + 1
    /\ bat' = [f \in Flows |-> FALSE]
    /\ UNCHANGED <<cache, lastSweep, datasources, bpc, breq, bgot, queries, lastSet, obs,
                   cacheOps>>
    /\ UNCHANGED nonBackendVars

\* the janitor's ticker has fired: expired entries are deleted
Sweep ==
    /\ now >= lastSweep + cache.interval
    /\ \A f \in Flows : qpc[f] = "idle"
    /\ cache' = goCacheDeleteExpired(cache, now)
    /\ lastSweep' = now
    /\ UNCHANGED <<now, datasources, bpc, breq, bgot, bat, queries, lastSet, obs, cacheOps>>
    /\ UNCHANGED nonBackendVars

\* some flow calls Cache.Set(k, v)
SetOp ==
    /\ cacheOps < MaxCacheOps
    /\ \E k \in CacheKeys, v \in CacheValues :
        /\ cache' = CacheSet(cache, k, v, now)
        /\ lastSet' = [j \in DOMAIN lastSet \cup {k} |->
                          IF j = k THEN [set |-> TRUE, at |-> now, val |-> v]
                          ELSE lastSet[j]]
    /\ cacheOps' = cacheOps + 1
    /\ UNCHANGED <<now, lastSweep, datasources, bpc, breq, bgot, bat, queries, obs>>
    /\ UNCHANGED nonBackendVars

\* some flow calls Cache.Get(k); obs keeps what it returned, when, what the
\* most recent Set of k was, and whether the entry was still stored
GetOp ==
    /\ cacheOps < MaxCacheOps
    /\ \E k \in CacheKeys :
        LET g == CacheGet(cache, k, now)
            l == IF k \in DOMAIN lastSet THEN lastSet[k] ELSE NoSet
        IN  obs' = [valid |-> TRUE, key |-> k, at |-> now, val |-> g.val,
                    found |-> g.found, set |-> l.set, setAt |-> l.at, setVal |-> l.val,
                    swept |-> k \notin DOMAIN cache.items]
    /\ cacheOps' = cacheOps + 1
    /\ UNCHANGED <<now, cache, lastSweep, datasources, bpc, breq, bgot, bat, queries,
                   lastSet>>
    /\ UNCHANGED nonBackendVars

(* -------------- getCachedDatasource (api_client.go:450-467) ------------ *)

\* a datasource built with a hash other than the one asked for
newZabbixDatasource_NoHash(hash) == [hash |-> <<>>]

\* api_client.go:408-411
newZabbixDatasource(hash) == [hash |-> hash]

\* Query calls getCachedDatasource(tsdbReq)
GetCachedStart(f) ==
    /\ bpc[f] = "idle"
    /\ queries < MaxQueries
    /\ \E d \in BackendDsInfos : breq' = [breq EXCEPT ![f] = d]
    /\ bpc' = [bpc EXCEPT ![f] = "get"]
    /\ bat' = [bat EXCEPT ![f] = TRUE]
    /\ queries' = queries + 1
    /\ UNCHANGED <<now, cache, lastSweep, datasources, bgot, lastSet, obs, cacheOps>>
    /\ UNCHANGED nonBackendVars

\* a lookup that stores the instance it found again, as a cache that renews
\* an entry on every use would
GetCachedLookup_ReSet(f) ==
    /\ bpc[f] = "get"
    /\ LET dsInfoHash == HashDatasourceInfo(breq[f])
           cached == CacheGet(cache, dsInfoHash, now)
       IN  IF cached.found
               THEN /\ bgot' = [bgot EXCEPT ![f] = cached.val]
                    /\ bpc' = [bpc EXCEPT ![f] = "returned"]
                    /\ cache' = CacheSet(cache, dsInfoHash, cached.val, now)
               ELSE /\ bpc' = [bpc EXCEPT ![f] = "create"]
                    /\ UNCHANGED <<bgot, cache>>
    /\ UNCHANGED <<now, lastSweep, datasources, breq, bat, queries, lastSet, obs,
                   cacheOps>>
    /\ UNCHANGED nonBackendVars

\* lines 451-457: the lookup; a hit returns the cached instance
GetCachedLookup(f) ==
    /\ bpc[f] = "get"
    /\ LET dsInfoHash == HashDatasourceInfo(breq[f])
           cached == CacheGet(cache, dsInfoHash, now)
       IN  IF cached.found
               THEN /\ bgot' = [bgot EXCEPT ![f] = cached.val]
                    /\ bpc' = [bpc EXCEPT ![f] = "returned"]
               ELSE /\ bpc' = [bpc EXCEPT ![f] = "create"]
                    /\ UNCHANGED bgot
    /\ UNCHANGED <<now, cache, lastSweep, datasources, breq, bat, queries, lastSet, obs,
                   cacheOps>>
    /\ UNCHANGED nonBackendVars

\* lines 464-466: a new instance is created, stored and returned
GetCachedCreate(f) ==
    /\ bpc[f] = "create"
    /\ LET dsInfoHash == HashDatasourceInfo(breq[f])
           ds == Len(datasources) + 1
       IN  /\ datasources' = Append(datasources, newZabbixDatasource(dsInfoHash))
           /\ cache' = CacheSet(cache, dsInfoHash, ds, now)
           /\ lastSet' = [j \in DOMAIN lastSet \cup {dsInfoHash} |->
                             IF j = dsInfoHash THEN [set |-> TRUE, at |-> now, val |-> ds]
                             ELSE lastSet[j]]
           /\ bgot' = [bgot EXCEPT ![f] = ds]
    /\ bpc' = [bpc EXCEPT ![f] = "returned"]
    /\ UNCHANGED <<now, lastSweep, breq, bat, queries, obs, cacheOps>>
    /\ UNCHANGED nonBackendVars

\* the request that asked for the datasource is over
GetCachedDone(f) ==
    /\ bpc[f] = "returned"
    /\ bpc' = [bpc EXCEPT ![f] = "idle"]
    /\ bgot' = [bgot EXCEPT ![f] = 0]
    /\ bat' = [bat EXCEPT ![f] = FALSE]
    /\ breq' = [breq EXCEPT ![f] = basicDatasourceInfo]
    /\ UNCHANGED <<now, cache, lastSweep, datasources, queries, lastSet, obs, cacheOps>>
    /\ UNCHANGED nonBackendVars

(* ------------ requests and responses of the datasource ---------------- *)

\* a Go string that holds no JSON text
NoText == [type |-> "empty", val |-> ""]

\* the JSON literal null, and a text that is not JSON
JSONNull == [type |-> "null", val |-> "null"]
InvalidJSON == [type |-> "invalid", val |-> "invalid json"]

\* a JSON array whose text holds a character json.Marshal escapes
JSONNames == [type |-> "array", val |-> "[\"R&D\"]"]

\* params of a direct query (datasource_test.go:67)
TestParams == [user |-> "test", password |-> ""]

\* datasource.Query.ModelJson: valid tells whether the text is JSON, fits
\* whether it unmarshals into a requestModel; queryType is the text of that
\* field (NilResult when absent), method and params are those of target
EmptyModel ==
    [valid |-> FALSE, fits |-> FALSE, queryType |-> NilResult, method |-> "",
     params |-> NoParams]
BadTargetModel ==
    [valid |-> TRUE, fits |-> FALSE, queryType |-> JSONString("zabbixAPI"), method |-> "",
     params |-> NoParams]
Model(queryType, m, params) ==
    [valid |-> TRUE, fits |-> TRUE, queryType |-> queryType, method |-> m,
     params |-> params]

\* the first query of a request
FirstModels ==
    {EmptyModel, BadTargetModel,
     Model(NilResult, "item.get", TestParams),
     Model(JSONArray, "item.get", NoParams),
     Model(JSONString("zabbixAPI"), "item.get", TestParams),
     Model(JSONString("DirectQuery"), "item.get", TestParams),
     Model(JSONString("query"), "", NoParams),
     Model(JSONString("connectionTest"), "", NoParams),
     Model(JSONString("zabbixConnectionTest"), "", NoParams)}

\* the queries after the first
NextModels == {EmptyModel, Model(JSONString("zabbixAPI"), "apiinfo.version", NoParams)}

\* the first queries that are followed by another one
LeadingModels == {Model(JSONString("query"), "", NoParams)}

\* tsdbReq.Queries
QueryLists ==
    {<<>>} \cup {<<q>> : q \in FirstModels}
        \cup {<<q, n>> : q \in LeadingModels, n \in NextModels}

\* simplejson.NewJson(text) and json.Unmarshal(text, &request)
NewJsonError(model) ==
    IF model.valid THEN NoErr ELSE <<"unexpected end of JSON input">>
UnmarshalRequestError(model) ==
    IF ~model.valid THEN <<"unexpected end of JSON input">>
    ELSE IF ~model.fits
        THEN <<"json: cannot unmarshal string into Go struct field requestModel.target">>
    ELSE NoErr

\* simplejson's MustString(def): the string, def when the field is absent or
\* not a string
MustString(field, def) == IF field.type = "string" THEN field.val ELSE def

\* datasource.DatasourceResponse and datasource.QueryResult
NilResponse == [nil |-> TRUE, results |-> <<>>]
Response(results) == [nil |-> FALSE, results |-> results]
QueryResult(refId, metaJson, series, error) ==
    [refId |-> refId, metaJson |-> metaJson, series |-> series, error |-> error]

\* what an operation hands back: (response, error)
Out(resp, e) == [resp |-> resp, err |-> e]

\* how json.Marshal writes a string or a raw text holding <, > or &
EscapeHTML(s) ==
    IF s = "R&D" THEN "R\\u0026D"
    ELSE IF s = "[\"R&D\"]" THEN "[\"R\\u0026D\"]"
    ELSE s

\* what a JSON parser reads such an escaped text as
UnescapeHTML(s) ==
    IF s = "R\\u0026D" THEN "R&D"
    ELSE IF s = "[\"R\\u0026D\"]" THEN "[\"R&D\"]"
    ELSE s

\* json.Marshal of a json.RawMessage: nil is written as null, a text that is
\* not JSON is an error, a JSON text is compacted and HTML-escaped
MarshalRawMessage(raw) ==
    IF raw.type = "nil" THEN Ret(JSONNull, NoErr)
    ELSE IF raw.type = "invalid"
        THEN Ret(NoText, <<"json: error calling MarshalJSON for type json.RawMessage">>)
    ELSE Ret([type |-> raw.type, val |-> EscapeHTML(raw.val)], NoErr)

\* a json.Marshal that cannot encode a connectionTestResponse
MarshalConnectionTest_Failing(t) ==
    Ret(NoText, <<"json: unsupported type">>)

\* json.Marshal of a connectionTestResponse (models.go:5-8)
MarshalConnectionTest(t) ==
    Ret([type |-> "object",
         val |-> [zabbixVersion |-> EscapeHTML(t.ZabbixVersion),
                  dbConnectorStatus |-> t.DbConnectorStatus]],
        NoErr)

\* json.Marshal(responseData)
jsonMarshal(responseData) ==
    IF "ZabbixVersion" \in DOMAIN responseData THEN MarshalConnectionTest(responseData)
    ELSE MarshalRawMessage(responseData)

\* a BuildResponse that reports its success in the error field as well
BuildResponse_WithStatus(responseData) ==
    LET jsonBytes == jsonMarshal(responseData)
    IN  IF jsonBytes.err # NoErr THEN Out(NilResponse, jsonBytes.err)
        ELSE Out(Response(<<QueryResult("zabbixAPI", jsonBytes.val, <<>>, <<"OK">>)>>), NoErr)

\* api_client.go:484-498
BuildResponse(responseData) ==
    LET jsonBytes == jsonMarshal(responseData)
    IN  IF jsonBytes.err # NoErr THEN Out(NilResponse, jsonBytes.err)
        ELSE Out(Response(<<QueryResult("zabbixAPI", jsonBytes.val, <<>>, NoErr)>>), NoErr)

\* api_client.go:501-505
BuildMetricsResponse(results) == Out(Response(results), NoErr)

\* an error response that carries the message as its payload
BuildErrorResponse_InMeta(e) ==
    Response(<<QueryResult("zabbixAPI", [type |-> "string", val |-> e], <<>>, NoErr)>>)

\* api_client.go:508-517
BuildErrorResponse(e) == Response(<<QueryResult("zabbixAPI", NoText, <<>>, e)>>)

(* ------------ DirectQuery (datasource.go:317-355) ---------------------- *)

NoRawCall == [method |-> "", params |-> NoParams]

\* a DirectQuery that issues the last query instead of the first
DirectQueryRequest_LastQuery(tsdbQueries) ==
    LET bad == {i \in 1..Len(tsdbQueries) : UnmarshalRequestError(tsdbQueries[i]) # NoErr}
        first == CHOOSE i \in bad : \A j \in bad : i <= j
    IN  IF bad # {} THEN Ret(NoRawCall, UnmarshalRequestError(tsdbQueries[first]))
        ELSE IF Len(tsdbQueries) = 0
            THEN Ret(NoRawCall, <<"At least one query should be provided">>)
        ELSE Ret([method |-> tsdbQueries[Len(tsdbQueries)].method,
                  params |-> tsdbQueries[Len(tsdbQueries)].params], NoErr)

\* lines 326-343: every query is unmarshalled, the first one is the call
DirectQueryRequest(tsdbQueries) ==
    LET bad == {i \in 1..Len(tsdbQueries) : UnmarshalRequestError(tsdbQueries[i]) # NoErr}
        first == CHOOSE i \in bad : \A j \in bad : i <= j
    IN  IF bad # {} THEN Ret(NoRawCall, UnmarshalRequestError(tsdbQueries[first]))
        ELSE IF Len(tsdbQueries) = 0
            THEN Ret(NoRawCall, <<"At least one query should be provided">>)
        ELSE Ret([method |-> tsdbQueries[1].method, params |-> tsdbQueries[1].params], NoErr)

\* a DirectQuery that hands RawRequest's error on as it is
DirectQueryResponse_Unwrapped(response, e) ==
    IF e # NoErr THEN Out(NilResponse, e)
    ELSE BuildResponse(response)

\* lines 345-354: what DirectQuery makes of RawRequest's answer
DirectQueryResponse(response, e) ==
    IF e # NoErr THEN Out(NilResponse, <<"Error in direct query: ">> \o e)
    ELSE BuildResponse(response)

(* ------------ TestConnection (datasource.go:358-381) ------------------- *)

\* line 361: the call TestConnection makes
TestConnectionRequest == [method |-> "apiinfo.version", params |-> NoParams]

\* a TestConnection that hands the failure of the version call on as an error
TestConnectionResponse_HardFailure(res, e) ==
    IF e # NoErr THEN Out(NilResponse, <<"Version check failed: ">> \o e)
    ELSE LET version == UnmarshalString(res)
         IN  IF version.err # NoErr
                 THEN Out(NilResponse,
                          <<"Internal error while parsing response from Zabbix">>)
                 ELSE BuildResponse([ZabbixVersion |-> version.val.val,
                                     DbConnectorStatus |-> "null"])

\* lines 362-380: what TestConnection makes of RawRequest's answer
TestConnectionResponse(res, e) ==
    IF e # NoErr THEN Out(BuildErrorResponse(<<"Version check failed: ">> \o e), NoErr)
    ELSE LET version == UnmarshalString(res)
         IN  IF version.err # NoErr
                 THEN Out(NilResponse,
                          <<"Internal error while parsing response from Zabbix">>)
                 ELSE BuildResponse([ZabbixVersion |-> version.val.val,
                                     DbConnectorStatus |-> "null"])

(* ------- the operations on a mocked client (datasource_test.go) -------- *)

\* what MockRawRequestClient.RawRequest is set up to return: a result (a JSON
\* text, a text that is not JSON, or none) or an error
MockResults == {JSONString("4.0.0"), JSONString("R&D"), JSONArray, JSONNames, JSONNull,
                NilResult, InvalidJSON}
MockErrors == {<<"Test error">>,
               AuthenticationFailure(<<"Login failed -- no username provided">>)}
MockOutcomes ==
    {Ret(r, NoErr) : r \in MockResults} \cup {Ret(NilResult, e) : e \in MockErrors}

\* the requests of the unit tests: those above and lists of direct queries
MockQueryLists ==
    QueryLists \cup {<<Model(JSONString("zabbixAPI"), "apiinfo.version", NoParams)>>}
        \cup {<<Model(JSONString("zabbixAPI"), "item.get", TestParams), n>> : n \in NextModels}

\* ds.DirectQuery(ctx, request) on a datasource whose client is the mock
DirectQueryOnMock ==
    /\ \E tsdbQueries \in MockQueryLists, mock \in MockOutcomes :
        LET request == DirectQueryRequest(tsdbQueries)
        IN  /\ call' = [fn |-> "DirectQuery", queries |-> tsdbQueries, mock |-> mock]
            /\ ret' = [fn |-> "DirectQuery",
                       out |-> IF request.err # NoErr THEN Out(NilResponse, request.err)
                               ELSE DirectQueryResponse(mock.val, mock.err),
                       raw |-> IF request.err # NoErr THEN <<>> ELSE <<request.val>>]
    /\ UNCHANGED <<chain, nonPureVars>>

\* ds.TestConnection(ctx, request) on a datasource whose client is the mock
TestConnectionOnMock ==
    /\ \E tsdbQueries \in MockQueryLists, mock \in MockOutcomes :
        /\ call' = [fn |-> "TestConnection", queries |-> tsdbQueries, mock |-> mock]
        /\ ret' = [fn |-> "TestConnection",
                   out |-> TestConnectionResponse(mock.val, mock.err),
                   raw |-> <<TestConnectionRequest>>]
    /\ UNCHANGED <<chain, nonPureVars>>

\* handleAPIResult(response) on any response body
HandleAPIResultCall ==
    /\ \E response \in Bodies :
        /\ call' = [fn |-> "handleAPIResult", response |-> response]
        /\ ret' = [fn |-> "handleAPIResult", out |-> handleAPIResult(response)]
    /\ UNCHANGED <<chain, nonPureVars>>

(* ------------------ isUseTrend (datasource.go:616-624) ----------------- *)

DaySec == 24 * 3600

\* time.Now().Unix(): the clock reading isUseTrend compares with, in seconds
NowSec == 12 * DaySec

\* (4 * 24 * time.Hour).Milliseconds()
FourDaysMilliseconds == 4 * DaySec * 1000

\* time.Now().Add(time.Hour*-7*24).Unix()
SevenDaysAgoSec(nowSec) == nowSec - 7 * DaySec

\* datasource.TimeRange values: from and to in epoch milliseconds, whole
\* days before now, with or without a fraction of a second
TimeRanges ==
    {[fromEpochMs |-> (NowSec - a * DaySec) * 1000 + i,
      toEpochMs |-> (NowSec - b * DaySec) * 1000 + j] :
        a \in 0..MaxRangeDays, b \in 0..MaxRangeDays, i \in {0, 999}, j \in {0, 999}}

\* datasource.go:616-624: both operands of the second comparison are as the
\* code has them, a difference of seconds and a number of milliseconds
isUseTrend(timeRange, nowSec) ==
    LET fromSec == timeRange.fromEpochMs \div 1000
        toSec == timeRange.toEpochMs \div 1000
    IN  \/ fromSec < SevenDaysAgoSec(nowSec)
        \/ toSec - fromSec > FourDaysMilliseconds

NoCall == [fn |-> "none"]
NoRet == [fn |-> "none"]

\* isUseTrend(tsdbReq.GetTimeRange()) is evaluated
IsUseTrendCall ==
    /\ \E timeRange \in TimeRanges :
        /\ timeRange.fromEpochMs <= timeRange.toEpochMs
        /\ call' = [fn |-> "isUseTrend", timeRange |-> timeRange, nowSec |-> NowSec]
        /\ ret' = [fn |-> "isUseTrend", val |-> isUseTrend(timeRange, NowSec)]
    /\ UNCHANGED <<chain, nonPureVars>>

(* ------------- ZabbixBackend.Query (api_client.go:415-448) ------------- *)

\* lines 470-481
GetQueryType(tsdbQueries) ==
    IF Len(tsdbQueries) > 0
        THEN IF NewJsonError(tsdbQueries[1]) # NoErr
                 THEN Ret("", NewJsonError(tsdbQueries[1]))
                 ELSE Ret(MustString(tsdbQueries[1].queryType, "query"), NoErr)
        ELSE Ret("query", NoErr)

\* a switch without the connectionTest case
Route_NoConnectionTest(queryType) ==
    CASE queryType = "zabbixAPI" -> "DirectQuery"
      [] queryType = "query" -> "TimeseriesQuery"
      [] OTHER -> "none"

\* lines 432-442: the operation a query type is routed to, "none" for the
\* default branch
Route(queryType) ==
    CASE queryType = "zabbixAPI" -> "DirectQuery"
      [] queryType = "query" -> "TimeseriesQuery"
      [] queryType = "connectionTest" -> "TestConnection"
      [] OTHER -> "none"

\* the value a nil dereference panics with; it is an error, so that line 418
\* keeps it in err
RuntimeError == <<"runtime error: invalid memory address or nil pointer dereference">>

\* a deferred function that does not recover
Recovered_NoResponse == Out(NilResponse, RuntimeError)

\* lines 416-423: what the deferred function leaves in (resp, err)
Recovered ==
    Out(BuildErrorResponse(<<"Unrecoverable error in grafana-zabbix plugin backend">>),
        RuntimeError)

\* the authToken of the client of instance ds
TokenOf(ds) == IF ds \in DOMAIN dsTokens THEN dsTokens[ds] ELSE NoToken

\* whether loginWithDs can get as far as sending user.login
CanLogin(d) == Credentials(d).ok /\ URLParses(d.url)

\* the host calls Query while no other request is being served; the flows
\* are alike, so the first one serves it
QueryStart(f) ==
    /\ \A g \in Flows : qpc[g] = "idle" /\ pc[g] = "idle" /\ bpc[g] = "idle"
    /\ \A g \in Flows : g >= f
    /\ requests < MaxRequests
    /\ \E d \in BackendDsInfos, tsdbQueries \in QueryLists :
        /\ breq' = [breq EXCEPT ![f] = d]
        /\ qreq' = [qreq EXCEPT ![f] = tsdbQueries]
    /\ qpc' = [qpc EXCEPT ![f] = "getDs"]
    /\ bpc' = [bpc EXCEPT ![f] = "get"]
    /\ bat' = [bat EXCEPT ![f] = TRUE]
    /\ requests' = requests + 1
    /\ UNCHANGED <<qops, qraw, qresp, qerr, qfault, dsTokens, faults>>
    /\ UNCHANGED <<now, cache, lastSweep, datasources, bgot, queries, lastSet, obs, cacheOps>>
    /\ UNCHANGED <<clientVars, pureVars>>

\* lines 444-447 and the return: the error response built at line 445 is not
\* assigned, so Query returns what the operation returned
QueryReturns(f, out, fault) ==
    /\ qresp' = [qresp EXCEPT ![f] = out.resp]
    /\ qerr' = [qerr EXCEPT ![f] = out.err]
    /\ qfault' = [qfault EXCEPT ![f] = fault]
    /\ faults' = IF fault THEN faults + 1 ELSE faults
    /\ qpc' = [qpc EXCEPT ![f] = "returned"]

\* lines 427-442: the query type is read and the request is routed
QueryRoute(f) ==
    /\ qpc[f] = "getDs"
    /\ bpc[f] = "returned"
    /\ LET queryType == GetQueryType(qreq[f])
       IN  IF queryType.err # NoErr
               THEN /\ QueryReturns(f, Out(NilResponse, queryType.err), FALSE)
                    /\ UNCHANGED qops
           ELSE IF Route(queryType.val) = "none"
               THEN /\ QueryReturns(f, Out(BuildErrorResponse(<<"Query not implemented">>),
                                           NoErr), FALSE)
                    /\ UNCHANGED qops
           ELSE /\ qpc' = [qpc EXCEPT ![f] = Route(queryType.val)]
                /\ qops' = [qops EXCEPT ![f] = Append(qops[f], Route(queryType.val))]
                /\ UNCHANGED <<qresp, qerr, qfault, faults>>
    /\ UNCHANGED <<qreq, qraw, dsTokens, requests>>
    /\ UNCHANGED <<clientVars, backendVars, pureVars>>

\* ds.client.RawRequest(ctx, dsInfo, method, params) on the client of the
\* instance Query was given
CallRawRequest(f, rawCall) ==
    /\ qraw' = [qraw EXCEPT ![f] = Append(qraw[f], rawCall)]
    /\ dsInfo' = breq[f]
    /\ authToken' = TokenOf(bgot[f])
    /\ pc' = [pc EXCEPT ![f] = "loop"]
    /\ method' = [method EXCEPT ![f] = rawCall.method]
    /\ attempt' = [attempt EXCEPT ![f] = 0]
    /\ sentAuth' = [sentAuth EXCEPT ![f] = NoToken]
    /\ result' = [result EXCEPT ![f] = NilResult]
    /\ err' = [err EXCEPT ![f] = NoErr]
    /\ log' = [log EXCEPT ![f] = Logged(f, <<TokenEv("call", TokenOf(bgot[f]))>>)]
    /\ UNCHANGED <<invocations, history>>
    /\ UNCHANGED <<qpc, qreq, qops, qresp, qerr, qfault, dsTokens, requests, faults>>

\* RawRequest is over: its frame is dropped and the client keeps its token
RawRequestReturned(f) ==
    /\ dsTokens' = [i \in DOMAIN dsTokens \cup {bgot[f]} |->
                       IF i = bgot[f] THEN authToken ELSE dsTokens[i]]
    /\ authToken' = NoToken
    /\ pc' = [pc EXCEPT ![f] = "idle"]
    /\ method' = [method EXCEPT ![f] = "item.get"]
    /\ attempt' = [attempt EXCEPT ![f] = 0]
    /\ sentAuth' = [sentAuth EXCEPT ![f] = NoToken]
    /\ result' = [result EXCEPT ![f] = NilResult]
    /\ err' = [err EXCEPT ![f] = NoErr]
    /\ log' = [log EXCEPT ![f] = <<>>]
    /\ dsInfo' = basicDatasourceInfo
    /\ UNCHANGED <<invocations, history>>

\* datasource.go:317-345: DirectQuery up to its RawRequest call
DirectQueryCall(f) ==
    /\ qpc[f] = "DirectQuery"
    /\ pc[f] = "idle"
    /\ LET request == DirectQueryRequest(qreq[f])
       IN  IF request.err # NoErr
               THEN /\ QueryReturns(f, Out(NilResponse, request.err), FALSE)
                    /\ UNCHANGED <<qreq, qops, qraw, dsTokens, requests>>
                    /\ UNCHANGED clientVars
               ELSE CallRawRequest(f, request.val)
    /\ UNCHANGED <<backendVars, pureVars>>

\* datasource.go:345-354: RawRequest has answered, or has panicked
DirectQueryReturn(f) ==
    /\ qpc[f] = "DirectQuery"
    /\ pc[f] \in {"done", "panicked"}
    /\ IF pc[f] = "panicked" THEN QueryReturns(f, Recovered, TRUE)
       ELSE QueryReturns(f, DirectQueryResponse(result[f], err[f]), FALSE)
    /\ RawRequestReturned(f)
    /\ UNCHANGED <<qreq, qops, qraw, requests>>
    /\ UNCHANGED <<backendVars, pureVars>>

\* datasource.go:358-361: TestConnection up to its RawRequest call
TestConnectionCall(f) ==
    /\ qpc[f] = "TestConnection"
    /\ pc[f] = "idle"
    /\ CallRawRequest(f, TestConnectionRequest)
    /\ UNCHANGED <<backendVars, pureVars>>

\* datasource.go:362-380: RawRequest has answered, or has panicked
TestConnectionReturn(f) ==
    /\ qpc[f] = "TestConnection"
    /\ pc[f] \in {"done", "panicked"}
    /\ IF pc[f] = "panicked" THEN QueryReturns(f, Recovered, TRUE)
       ELSE QueryReturns(f, TestConnectionResponse(result[f], err[f]), FALSE)
    /\ RawRequestReturned(f)
    /\ UNCHANGED <<qreq, qops, qraw, requests>>
    /\ UNCHANGED <<backendVars, pureVars>>

\* the series of a metrics response
MetricsResults == {<<>>, <<QueryResult("A", NoText, <<"series">>, NoErr)>>}

\* the errors the resolution chain and the fetch can end with
ChainErrors == {<<"Error returned from Zabbix service: ", "500">>,
                AuthenticationFailure(<<"Login failed -- no username provided">>)}

\* datasource.go:383-426, seen from Query: the queries are parsed, then the
\* resolution chain and the fetch run, each stage a RawRequest on the
\* instance's client; the whole ends with a metrics response, an error or a
\* panic, and the client holds a token when a stage was served
TimeseriesQuery(f) ==
    /\ qpc[f] = "TimeseriesQuery"
    /\ LET bad == {i \in 1..Len(qreq[f]) : NewJsonError(qreq[f][i]) # NoErr}
           tok == TokenOf(bgot[f])
           served == IF tok # NoToken THEN {tok} \cup Tokens
                     ELSE IF CanLogin(breq[f]) THEN Tokens ELSE {}
           Keep(t) == dsTokens' = [i \in DOMAIN dsTokens \cup {bgot[f]} |->
                                      IF i = bgot[f] THEN t ELSE dsTokens[i]]
       IN  IF bad # {}
               THEN /\ QueryReturns(f, Out(NilResponse, <<"unexpected end of JSON input">>),
                                    FALSE)
                    /\ UNCHANGED dsTokens
           ELSE IF Len(qreq[f]) = 0
               THEN /\ QueryReturns(f, Out(NilResponse,
                                           <<"At least one query should be provided">>),
                                    FALSE)
                    /\ UNCHANGED dsTokens
           ELSE \/ \E t \in served, metrics \in MetricsResults :
                       /\ QueryReturns(f, BuildMetricsResponse(metrics), FALSE)
                       /\ Keep(t)
                \/ \E t \in served \cup {NoToken}, e \in ChainErrors :
                       /\ QueryReturns(f, Out(NilResponse, e), FALSE)
                       /\ Keep(t)
                \/ \E t \in served :
                       /\ QueryReturns(f, Recovered, TRUE)
                       /\ Keep(t)
    /\ UNCHANGED <<qreq, qops, qraw, requests>>
    /\ UNCHANGED <<clientVars, backendVars, pureVars>>

\* the host has its answer; the request's frame is dropped
QueryDone(f) ==
    /\ qpc[f] = "returned"
    /\ qpc' = [qpc EXCEPT ![f] = "idle"]
    /\ qreq' = [qreq EXCEPT ![f] = <<>>]
    /\ qops' = [qops EXCEPT ![f] = <<>>]
    /\ qraw' = [qraw EXCEPT ![f] = <<>>]
    /\ qresp' = [qresp EXCEPT ![f] = NilResponse]
    /\ qerr' = [qerr EXCEPT ![f] = NoErr]
    /\ qfault' = [qfault EXCEPT ![f] = FALSE]
    /\ bpc' = [bpc EXCEPT ![f] = "idle"]
    /\ bgot' = [bgot EXCEPT ![f] = 0]
    /\ bat' = [bat EXCEPT ![f] = FALSE]
    /\ breq' = [breq EXCEPT ![f] = basicDatasourceInfo]
    /\ UNCHANGED <<dsTokens, requests, faults>>
    /\ UNCHANGED <<now, cache, lastSweep, datasources, queries, lastSet, obs, cacheOps>>
    /\ UNCHANGED <<clientVars, pureVars>>

(* ------ the timeseries query on a mocked server (datasource.go:383-683) ------ *)

\* names of the server's groups, hosts, applications and items
Names == {"foobar", "fooba(r", "web"}

\* the filters a query's model carries for each stage
Filters == {"", "foobar", "fooba(r", "/fooba(r/", "/^foo.+/"}

\* regexp.Compile(pattern): Go's syntax, in which a slash is an ordinary
\* character and an unclosed group is an error (the message quotes the
\* pattern)
regexpCompileError(pattern) ==
    IF pattern \in {"fooba(r", "/fooba(r/"}
        THEN <<"error parsing regexp: missing closing ): ", pattern>>
        ELSE NoErr

\* whether the compiled pattern matches somewhere in s: the empty pattern
\* matches everywhere, foobar where s holds it, and /^foo.+/ nowhere, since
\* the start of the text cannot follow a slash
regexpFind(pattern, s) ==
    CASE pattern = "" -> TRUE
      [] pattern = "foobar" -> s = "foobar"
      [] pattern = "/^foo.+/" -> FALSE
      [] OTHER -> FALSE

\* regexp.MatchString(pattern, s)
MatchString(pattern, s) ==
    IF regexpCompileError(pattern) # NoErr
        THEN [matched |-> FALSE, err |-> regexpCompileError(pattern)]
        ELSE [matched |-> regexpFind(pattern, s), err |-> NoErr]

\* what the mocked server holds
ZabbixGroups ==
    <<[groupid |-> "1", name |-> "foobar"], [groupid |-> "2", name |-> "web"]>>
ZabbixHosts ==
    <<[hostid |-> "10", name |-> "foobar", groupid |-> "1"],
      [hostid |-> "20", name |-> "web", groupid |-> "2"]>>
ZabbixApps ==
    <<[applicationid |-> "100", name |-> "foobar", hostid |-> "10"],
      [applicationid |-> "200", name |-> "web", hostid |-> "20"]>>
ZabbixItems ==
    <<[itemid |-> "1", name |-> "foobar", status |-> "0", value_type |-> 0,
       hosts |-> <<[hostid |-> "10", name |-> "foobar"]>>, applicationid |-> "100"],
      [itemid |-> "2", name |-> "web", status |-> "0", value_type |-> 3,
       hosts |-> <<[hostid |-> "10", name |-> "foobar"]>>, applicationid |-> "100"],
      [itemid |-> "3", name |-> "foobar", status |-> "1", value_type |-> 0,
       hosts |-> <<[hostid |-> "20", name |-> "web"]>>, applicationid |-> "200"],
      [itemid |-> "4", name |-> "fooba(r", status |-> "0", value_type |-> 0,
       hosts |-> <<[hostid |-> "20", name |-> "web"]>>, applicationid |-> "200"]>>

\* the elements of a sequence
Elems(s) == {s[i] : i \in 1..Len(s)}

\* zabbixParams of the typed fetches (models.go:37-64): the ID lists, all
\* omitempty, and the history type; -1 stands for no history parameter
NoHistory == -1
Params(groupids, hostids, appids, itemids, valueType) ==
    [groupids |-> groupids, hostids |-> hostids, applicationids |-> appids,
     itemids |-> itemids, history |-> valueType]

\* a RawRequest of the chain: method, params and whether it has returned
ChainCall(m, params) == [method |-> m, params |-> params, returned |-> FALSE]

\* api_client.go:296-298, 279-281, 261-263, 229-246
GetAllGroupsCall == ChainCall("hostgroup.get", Params(<<>>, <<>>, <<>>, <<>>, NoHistory))
GetHostsByGroupIDsCall(groupids) ==
    ChainCall("host.get", Params(groupids, <<>>, <<>>, <<>>, NoHistory))
GetAppsByHostIDsCall(hostids) ==
    ChainCall("application.get", Params(<<>>, hostids, <<>>, <<>>, NoHistory))
GetFilteredItemsCall(hostids, appids) ==
    ChainCall("item.get", Params(<<>>, hostids, appids, <<>>, NoHistory))

\* api_client.go:333-334: TimeFrom and TimeTill of history.get
HistoryTimeBounds(timeRange) ==
    [time_from |-> timeRange.fromEpochMs \div 1000,
     time_till |-> timeRange.toEpochMs \div 1000]

\* api_client.go:368-369: TimeFrom and TimeTill of trend.get
TrendTimeBounds(timeRange) ==
    [time_from |-> timeRange.fromEpochMs, time_till |-> timeRange.toEpochMs]

\* a history.get that leaves the history parameter out
GetHistoryCall_NoType(itemids, valueType, timeRange) ==
    ChainCall("history.get", Params(<<>>, <<>>, <<>>, itemids, NoHistory)
                                 @@ HistoryTimeBounds(timeRange))

\* api_client.go:328-339 and 363-373
GetHistoryCall(itemids, valueType, timeRange) ==
    ChainCall("history.get", Params(<<>>, <<>>, <<>>, itemids, valueType)
                                 @@ HistoryTimeBounds(timeRange))
GetTrendCall(itemids, timeRange) ==
    ChainCall("trend.get", Params(<<>>, <<>>, <<>>, itemids, NoHistory)
                               @@ TrendTimeBounds(timeRange))

\* what the server answers: an ID list that is empty is left out of the
\* request (omitempty) and so does not restrict the answer
ServerHosts(params) ==
    SelectSeq(ZabbixHosts,
              LAMBDA h : params.groupids = <<>> \/ h.groupid \in Elems(params.groupids))
ServerApps(params) ==
    SelectSeq(ZabbixApps,
              LAMBDA a : params.hostids = <<>> \/ a.hostid \in Elems(params.hostids))
ServerItems(params) ==
    SelectSeq(ZabbixItems,
              LAMBDA i : /\ params.hostids = <<>> \/ i.hosts[1].hostid \in Elems(params.hostids)
                         /\ params.applicationids = <<>>
                                \/ i.applicationid \in Elems(params.applicationids))

\* the error of a RawRequest that failed
RemoteErrors == {<<"Error returned from Zabbix service: ", "500">>}

\* one answer of the server: a typed result or an error
Answers(val) == {Ret(val, NoErr)} \cup {Ret(<<>>, e) : e \in RemoteErrors}

\* a filter loop that, like the item loop, leaves out what it cannot match
FilterByName_ErrorsSkipped(entities, filter) ==
    Ret(SelectSeq(entities, LAMBDA e : /\ MatchString(filter, e.name).err = NoErr
                                       /\ MatchString(filter, e.name).matched),
        NoErr)

\* the loops at datasource.go:540-547, 521-528 and 491-499: the entities whose
\* name matches, or the error of the first MatchString; no entity, no error
FilterByName(entities, filter) ==
    IF Len(entities) > 0 /\ regexpCompileError(filter) # NoErr
        THEN Ret(<<>>, regexpCompileError(filter))
        ELSE Ret(SelectSeq(entities, LAMBDA e : MatchString(filter, e.name).matched), NoErr)

\* an item loop that does not look at the status
FilterItems_DisabledToo(items, itemFilter) ==
    SelectSeq(items, LAMBDA i : /\ MatchString(itemFilter, i.name).err = NoErr
                                /\ MatchString(itemFilter, i.name).matched)

\* datasource.go:467-477: the enabled items whose name matches; an item whose
\* MatchString fails is logged and left out
FilterItems(items, itemFilter) ==
    SelectSeq(items, LAMBDA i : /\ i.status = "0"
                                /\ MatchString(itemFilter, i.name).err = NoErr
                                /\ MatchString(itemFilter, i.name).matched)

\* the number of warnings the loop at datasource.go:467-477 logs
ItemWarnings(items, itemFilter) ==
    Cardinality({k \in 1..Len(items) : /\ items[k].status = "0"
                                        /\ MatchString(itemFilter, items[k].name).err # NoErr})

\* the IDs of a list, in its order
GroupIDs(groups) == [k \in 1..Len(groups) |-> groups[k].groupid]
HostIDs(hosts) == [k \in 1..Len(hosts) |-> hosts[k].hostid]
AppIDs(apps) == [k \in 1..Len(apps) |-> apps[k].applicationid]
ItemIDs(items) == [k \in 1..Len(items) |-> items[k].itemid]

\* history the server holds for one item: clock, nanoseconds and value of
\* each point, ascending by clock as sortfield "clock", sortorder "ASC" asks
HistoryPoint(clock, ns, value) == [clock |-> clock, ns |-> ns, value |-> value]
PointLists ==
    {<<>>,
     <<HistoryPoint(1, 0, 5)>>,
     <<HistoryPoint(1, 0, 5), HistoryPoint(2, 0, 6)>>,
     <<HistoryPoint(1, 900000000, 5), HistoryPoint(1, 100000000, 6)>>,
     <<HistoryPoint(1, 999500000, 5), HistoryPoint(2, 0, 6)>>}

\* trends the server holds for one item
TrendPoint(clock, min, avg, max) ==
    [clock |-> clock, value_min |-> min, value_avg |-> avg, value_max |-> max]
TrendLists == {<<>>, <<TrendPoint(3600, 1, 2, 3), TrendPoint(7200, 4, 5, 6)>>}

\* the points of one item as the server returns them
OfItem(points, itemid) ==
    [k \in 1..Len(points) |-> [itemid |-> itemid] @@ points[k]]

\* two lists ascending by clock merged into one
RECURSIVE MergeByClock(_, _)
MergeByClock(a, b) ==
    IF a = <<>> THEN b
    ELSE IF b = <<>> THEN a
    ELSE IF a[1].clock <= b[1].clock THEN <<a[1]>> \o MergeByClock(Tail(a), b)
    ELSE <<b[1]>> \o MergeByClock(a, Tail(b))

RECURSIVE MergeFrom(_, _, _)
MergeFrom(itemids, data, k) ==
    IF k > Len(itemids) THEN <<>>
    ELSE MergeByClock(OfItem(data[k], itemids[k]), MergeFrom(itemids, data, k + 1))

\* the answers to history.get and trend.get: the points of the items asked
\* for, of all items when no item is named, ascending by clock
AskedItems(params) ==
    IF params.itemids = <<>> THEN ItemIDs(ZabbixItems) ELSE params.itemids
ServerHistory(params) ==
    {MergeFrom(AskedItems(params), data, 1) :
        data \in [1..Len(AskedItems(params)) -> PointLists]}
ServerTrend(params) ==
    {MergeFrom(AskedItems(params), data, 1) :
        data \in [1..Len(AskedItems(params)) -> TrendLists]}

\* fmt.Sprintf("%s %s", item.Hosts[0].Name, item.Name)
SeriesName(item) == <<item.hosts[1].name, " ", item.name>>

\* math.Round(float64(point.NS)/1000000) of a count of nanoseconds
RoundToMs(ns) == (ns + 500000) \div 1000000

\* datasource.go:638 and 672
HistoryTimestamp(point) == point.clock * 1000 + RoundToMs(point.ns)
TrendTimestamp(point) == point.clock * 1000

\* datasource.go:652-659: nil for a type that is none of min, avg, max
HasTrendValueFunc(trendValueType) == trendValueType \in {"min", "avg", "max"}
trendValueFunc(trendValueType, tp) ==
    CASE trendValueType = "min" -> tp.value_min
      [] trendValueType = "avg" -> tp.value_avg
      [] trendValueType = "max" -> tp.value_max

\* new(categories).Trends (datasource.go:584): the Trends of a categories
\* value that was just allocated, a nil slice
TrendFunctions == <<>>

\* a function a query declares: functions[k].def.name and .def.params
FunctionDef(name, params) == [name |-> name, params |-> params]
FunctionLists ==
    {<<>>,
     <<FunctionDef("min", <<>>)>>,
     <<FunctionDef("avg", <<>>)>>,
     <<FunctionDef("max", <<>>)>>,
     <<FunctionDef("scale", <<"100">>)>>,
     <<FunctionDef("consolidateBy", <<>>)>>,
     <<FunctionDef("consolidateBy", <<"max">>)>>,
     <<FunctionDef("min", <<>>), FunctionDef("consolidateBy", <<"max">>)>>,
     <<FunctionDef("max", <<>>), FunctionDef("min", <<>>)>>}

\* datasource.go:579-600: the last function of the first query whose name is
\* one of the trend functions, avg when there is none
getTrendValueType(functions) ==
    LET named == {k \in 1..Len(functions) :
                     \E j \in 1..Len(TrendFunctions) : TrendFunctions[j] = functions[k].name}
    IN  IF named = {} THEN "avg"
        ELSE functions[CHOOSE k \in named : \A j \in named : j <= k].name

\* datasource.go:602-614: the first parameter of the last consolidateBy that
\* has one, empty when there is none
getConsolidateBy(functions) ==
    LET named == {k \in 1..Len(functions) :
                     functions[k].name = "consolidateBy" /\ Len(functions[k].params) > 0}
    IN  IF named = {} THEN ""
        ELSE functions[CHOOSE k \in named : \A j \in named : j <= k].params[1]

\* the item a key of seriesMap was last set for
LastWithID(items, id) ==
    items[CHOOSE k \in 1..Len(items) :
              /\ items[k].itemid = id
              /\ \A j \in (k + 1)..Len(items) : items[j].itemid # id]

\* the points appended to one entry of seriesMap, in the order of the answer
HistoryPoints(hist, id) ==
    LET own == SelectSeq(hist, LAMBDA p : p.itemid = id)
    IN  [k \in 1..Len(own) |-> [timestamp |-> HistoryTimestamp(own[k]),
                                value |-> own[k].value]]
TrendPoints(trend, id, trendValueType) ==
    LET own == SelectSeq(trend, LAMBDA p : p.itemid = id)
    IN  [k \in 1..Len(own) |-> [timestamp |-> TrendTimestamp(own[k]),
                                value |-> trendValueFunc(trendValueType, own[k])]]

\* a convertHistory that makes a series only for the items that have points
convertHistory_OnlyWithPoints(hist, items) ==
    [id \in {p.itemid : p \in Elems(hist)} \cap Elems(ItemIDs(items)) |->
        [name |-> SeriesName(LastWithID(items, id)), points |-> HistoryPoints(hist, id)]]

\* datasource.go:626-641: seriesMap, one entry per item ID
convertHistory(hist, items) ==
    [id \in Elems(ItemIDs(items)) |->
        [name |-> SeriesName(LastWithID(items, id)), points |-> HistoryPoints(hist, id)]]

\* datasource.go:661-676
convertTrend(trend, items, trendValueType) ==
    [id \in Elems(ItemIDs(items)) |->
        [name |-> SeriesName(LastWithID(items, id)),
         points |-> TrendPoints(trend, id, trendValueType)]]

\* the conversions fault on an item without a host (Hosts[0]), on a point of
\* an item that has no entry in seriesMap (a nil *TimeSeries), and
\* convertTrend on a point when there is no value function
ConvertPanics(points, items) ==
    \/ \E k \in 1..Len(items) : Len(items[k].hosts) = 0
    \/ \E p \in Elems(points) : p.itemid \notin Elems(ItemIDs(items))
ConvertTrendPanics(trend, items, trendValueType) ==
    \/ ConvertPanics(trend, items)
    \/ Len(trend) > 0 /\ ~HasTrendValueFunc(trendValueType)

\* datasource.go:643-647 and 678-682: the entries of seriesMap in the order
\* the map is ranged over, which is any order
SeriesLists(seriesMap) ==
    LET n == Cardinality(DOMAIN seriesMap)
    IN  {[k \in 1..n |-> seriesMap[order[k]]] :
            order \in {o \in [1..n -> DOMAIN seriesMap] :
                          \A i, j \in 1..n : i # j => o[i] # o[j]}}

\* the time ranges of the requests: the last day and the last eight days
SeriesTimeRanges ==
    {[fromEpochMs |-> (NowSec - a * DaySec) * 1000, toEpochMs |-> NowSec * 1000] :
        a \in {1, 8}}

\* a timeseries request: whether its queries parse, the filters of the first
\* query's model and the time range
SeriesRequest(parsed, groupFilter, hostFilter, appFilter, itemFilter, timeRange) ==
    [queries |-> parsed, groupFilter |-> groupFilter, hostFilter |-> hostFilter,
     appFilter |-> appFilter, itemFilter |-> itemFilter, timeRange |-> timeRange]
NoSeriesRequest ==
    SeriesRequest("none", "", "", "", "", [fromEpochMs |-> 0, toEpochMs |-> 0])
SeriesRequests ==
    {SeriesRequest(q, "", "", "", "", t) : q \in {"none", "invalid"}, t \in SeriesTimeRanges}
        \cup {SeriesRequest("ok", g, h, a, i, t) :
                 g \in Filters, h \in Filters, a \in Filters, i \in Filters,
                 t \in SeriesTimeRanges}

\* a query that has not started
NoChain ==
    [pc |-> "idle", req |-> NoSeriesRequest, calls |-> <<>>, groups |-> <<>>,
     hosts |-> <<>>, apps |-> <<>>, fetched |-> <<>>, items |-> <<>>, warned |-> 0,
     pending |-> {}, history |-> <<>>, series |-> <<>>, err |-> NoErr]

\* the last RawRequest has returned
Returned(c) == [c EXCEPT !.calls[Len(c.calls)].returned = TRUE]

\* the query ends with an error
Failed(c, e) == [c EXCEPT !.pc = "done", !.err = e]

\* the next RawRequest is issued
Issued(c, rawCall, pc_) == [c EXCEPT !.calls = Append(@, rawCall), !.pc = pc_]

\* the value types of the items and the items of one type, in their order
ValueTypes(items) == {items[k].value_type : k \in 1..Len(items)}
ItemsOfType(items, valueType) == SelectSeq(items, LAMBDA i : i.value_type = valueType)

\* the last call issued
LastCall(c) == c.calls[Len(c.calls)]

\* datasource.go:383-413 down to getGroups' GetAllGroups (line 535): the
\* queries are parsed, then the first remote call is issued
QueryNumericItems ==
    /\ chain.pc = "idle"
    /\ \E req \in SeriesRequests :
        LET c == [chain EXCEPT !.req = req]
        IN  chain' = IF req.queries = "invalid"
                         THEN Failed(c, <<"unexpected end of JSON input">>)
                     ELSE IF req.queries = "none"
                         THEN Failed(c, <<"At least one query should be provided">>)
                     ELSE Issued(c, GetAllGroupsCall, "getGroups")
    /\ UNCHANGED <<call, ret, nonPureVars>>

\* datasource.go:535-551 and 505-515: hostgroup.get has returned; the groups
\* are filtered and host.get is issued for the matched ones
GetAllGroupsReturns ==
    /\ chain.pc = "getGroups"
    /\ \E groups \in Answers(ZabbixGroups) :
        LET c == Returned(chain)
            filteredGroups == FilterByName(groups.val, chain.req.groupFilter)
        IN  chain' = IF groups.err # NoErr THEN Failed(c, groups.err)
                     ELSE IF filteredGroups.err # NoErr THEN Failed(c, filteredGroups.err)
                     ELSE Issued([c EXCEPT !.groups = filteredGroups.val],
                                 GetHostsByGroupIDsCall(GroupIDs(filteredGroups.val)),
                                 "getHosts")
    /\ UNCHANGED <<call, ret, nonPureVars>>

\* datasource.go:436-450: with matched hosts the items of those hosts are
\* fetched, without any the applications are fetched first
ItemStage(c, hostids) ==
    IF Len(hostids) > 0
        THEN Issued(c, GetFilteredItemsCall(hostids, <<>>), "getItems")
        ELSE Issued(c, GetAppsByHostIDsCall(hostids), "getApps")

\* datasource.go:515-532 and 431-450: host.get has returned; the hosts are
\* filtered and the next call is issued
GetHostsByGroupIDsReturns ==
    /\ chain.pc = "getHosts"
    /\ \E hosts \in Answers(ServerHosts(LastCall(chain).params)) :
        LET c == Returned(chain)
            filteredHosts == FilterByName(hosts.val, chain.req.hostFilter)
        IN  chain' = IF hosts.err # NoErr THEN Failed(c, hosts.err)
                     ELSE IF filteredHosts.err # NoErr THEN Failed(c, filteredHosts.err)
                     ELSE ItemStage([c EXCEPT !.hosts = filteredHosts.val],
                                    HostIDs(filteredHosts.val))
    /\ UNCHANGED <<call, ret, nonPureVars>>

\* datasource.go:485-502 and 450-460: application.get has returned; the
\* applications are filtered and item.get is issued for the matched ones
GetAppsByHostIDsReturns ==
    /\ chain.pc = "getApps"
    /\ \E apps \in Answers(ServerApps(LastCall(chain).params)) :
        LET c == Returned(chain)
            filteredApps == FilterByName(apps.val, chain.req.appFilter)
        IN  chain' = IF apps.err # NoErr THEN Failed(c, apps.err)
                     ELSE IF filteredApps.err # NoErr THEN Failed(c, filteredApps.err)
                     ELSE Issued([c EXCEPT !.apps = filteredApps.val],
                                 GetFilteredItemsCall(<<>>, AppIDs(filteredApps.val)),
                                 "getItems")
    /\ UNCHANGED <<call, ret, nonPureVars>>

\* datasource.go:643-647: the conversion's map is ranged over, or it faulted
Converted(c, seriesMap, panics) ==
    IF panics THEN {[c EXCEPT !.pc = "panicked"]}
    ELSE {[c EXCEPT !.pc = "done", !.series = series] : series \in SeriesLists(seriesMap)}

\* api_client.go:317-339: the next group of the map is ranged over, in any
\* order, and history.get is issued for its items
NextHistoryCall(c, items, valueTypes) ==
    {Issued([c EXCEPT !.pending = valueTypes \ {valueType}],
            GetHistoryCall(ItemIDs(ItemsOfType(items, valueType)), valueType,
                           c.req.timeRange),
            "getHistory") : valueType \in valueTypes}

\* datasource.go:467-481, 413-419, 553-569 and the first call of GetHistory
\* or GetTrend: item.get has returned; the items are filtered and the data
\* of the resolved ones is asked for
GetFilteredItemsReturns ==
    /\ chain.pc = "getItems"
    /\ \E items \in Answers(ServerItems(LastCall(chain).params)) :
        LET filteredItems == FilterItems(items.val, chain.req.itemFilter)
            c == [Returned(chain) EXCEPT
                      !.fetched = items.val,
                      !.items = filteredItems,
                      !.warned = ItemWarnings(items.val, chain.req.itemFilter)]
        IN  IF items.err # NoErr THEN chain' = Failed(Returned(chain), items.err)
            ELSE IF isUseTrend(chain.req.timeRange, NowSec)
                THEN chain' = Issued(c, GetTrendCall(ItemIDs(filteredItems), chain.req.timeRange),
                                     "getTrend")
            ELSE IF ValueTypes(filteredItems) = {}
                THEN chain' \in Converted(c, convertHistory(<<>>, filteredItems),
                                          ConvertPanics(<<>>, filteredItems))
            ELSE chain' \in NextHistoryCall(c, filteredItems, ValueTypes(filteredItems))
    /\ UNCHANGED <<call, ret, nonPureVars>>

\* api_client.go:339-352 and datasource.go:569-576, 626-648, 425: history.get
\* has returned; its points are appended, and the next group is asked for or
\* the whole is converted
GetHistoryReturns ==
    /\ chain.pc = "getHistory"
    /\ \E hist \in {Ret(h, NoErr) : h \in ServerHistory(LastCall(chain).params)}
                          \cup {Ret(<<>>, e) : e \in RemoteErrors} :
        LET c == [Returned(chain) EXCEPT !.history = @ \o hist.val]
        IN  IF hist.err # NoErr THEN chain' = Failed(Returned(chain), hist.err)
            ELSE IF chain.pending # {}
                THEN chain' \in NextHistoryCall(c, chain.items, chain.pending)
            ELSE chain' \in Converted(c, convertHistory(c.history, chain.items),
                                      ConvertPanics(c.history, chain.items))
    /\ UNCHANGED <<call, ret, nonPureVars>>

\* api_client.go:373-383 and datasource.go:554, 563-576, 650-683, 425:
\* trend.get has returned and its points are converted; the queries of these
\* requests declare no functions
GetTrendReturns ==
    /\ chain.pc = "getTrend"
    /\ \E trend \in {Ret(t, NoErr) : t \in ServerTrend(LastCall(chain).params)}
                        \cup {Ret(<<>>, e) : e \in RemoteErrors} :
        LET c == [Returned(chain) EXCEPT !.history = trend.val]
            valueType == getTrendValueType(<<>>)
        IN  IF trend.err # NoErr THEN chain' = Failed(Returned(chain), trend.err)
            ELSE chain' \in Converted(c, convertTrend(trend.val, chain.items, valueType),
                                      ConvertTrendPanics(trend.val, chain.items, valueType))
    /\ UNCHANGED <<call, ret, nonPureVars>>

\* the descriptors loginWithDs is called with: a JSON config that parses or
\* not, each credential in the config, in the secure map (there also as an
\* empty value) or in both, and a URL that parses or not
SecureValues == {[present |-> FALSE, val |-> ""], [present |-> TRUE, val |-> ""],
                 [present |-> TRUE, val |-> "secret"]}
LoginDsInfos ==
    {[basicDatasourceInfo EXCEPT !.jsonData = JsonData(v, n, p),
                                 !.secure = [username |-> sn, password |-> sp]] :
        v \in BOOLEAN, n \in {"", "username"}, p \in {"", "password"},
        sn \in SecureValues, sp \in SecureValues}
        \cup {badUrlDatasourceInfo}

\* api_client.go:82-136: loginWithDs and login on a server that answers x:
\* the requests sent, and the token and error returned, or a fault
loginWithDs(ds, x) ==
    LET c == Credentials(ds)
        r == zabbixAPIResponse(x)
        auth == UnmarshalString(r.val)
        sent == <<apiRequest("user.login", [user |-> c.user, password |-> c.password], "")>>
    IN  IF ~c.ok THEN [sent |-> <<>>, panic |-> FALSE, auth |-> "", err |-> c.err]
        ELSE IF ~URLParses(ds.url)
            THEN [sent |-> <<>>, panic |-> FALSE, auth |-> "", err |-> URLParseError(ds.url)]
        ELSE IF r.panic THEN [sent |-> sent, panic |-> TRUE, auth |-> "", err |-> NoErr]
        ELSE IF r.err # NoErr THEN [sent |-> sent, panic |-> FALSE, auth |-> "", err |-> r.err]
        ELSE IF auth.err # NoErr
            THEN [sent |-> sent, panic |-> FALSE, auth |-> "", err |-> auth.err]
        ELSE [sent |-> sent, panic |-> FALSE, auth |-> auth.val.val, err |-> NoErr]

\* loginWithDs is called, once in a behaviour
LoginWithDsCall ==
    /\ call = NoCall
    /\ \E ds \in LoginDsInfos, x \in Exchanges :
        /\ call' = [fn |-> "loginWithDs", ds |-> ds, x |-> x]
        /\ ret' = [fn |-> "loginWithDs", out |-> loginWithDs(ds, x)]
    /\ UNCHANGED <<chain, nonPureVars>>

\* the descriptors of two requests: one descriptor and those that differ
\* from it in one field, to or from the field's zero value included
HashDsInfos ==
    {basicDatasourceInfo}
        \cup {[basicDatasourceInfo EXCEPT !.id = i] : i \in {0, 2}}
        \cup {[basicDatasourceInfo EXCEPT !.orgId = 1]}
        \cup {[basicDatasourceInfo EXCEPT !.name = n] : n \in {"", "AnotherDatasource"}}
        \cup {[basicDatasourceInfo EXCEPT !.url = u] : u \in {"", "otherUrl"}}
        \cup {[basicDatasourceInfo EXCEPT !.jsonData = j] :
                 j \in {JsonData(FALSE, "", ""), JsonData(TRUE, "username", "other"),
                        JsonData(TRUE, "other", "password")}}
        \cup {[basicDatasourceInfo EXCEPT !.secure.username = sn, !.secure.password = sp] :
                 sn \in SecureValues, sp \in SecureValues}

\* HashDatasourceInfo is called for each of two requests
HashDatasourceInfoCall ==
    /\ call = NoCall
    /\ \E d1 \in HashDsInfos, d2 \in HashDsInfos :
        /\ call' = [fn |-> "HashDatasourceInfo", ds |-> <<d1, d2>>]
        /\ ret' = [fn |-> "HashDatasourceInfo",
                   out |-> <<HashDatasourceInfo(d1), HashDatasourceInfo(d2)>>]
    /\ UNCHANGED <<chain, nonPureVars>>

\* the item and the trend points of the mocked GetTrend
MockTrendItems == <<ZabbixItems[1]>>
MockTrend == OfItem(<<TrendPoint(3600, 1, 2, 3), TrendPoint(7200, 4, 5, 6)>>, "1")

\* datasource.go:553-577 with useTrend on a client whose GetTrend answers
\* MockTrend: the value type, the consolidateBy that is logged, and the
\* series, or a fault of the conversion
queryNumericDataForItems(functions) ==
    LET valueType == getTrendValueType(functions)
        consolidateBy == IF getConsolidateBy(functions) = "" THEN valueType
                         ELSE getConsolidateBy(functions)
    IN  [fn |-> "queryNumericDataForItems",
         valueType |-> valueType,
         logged |-> consolidateBy,
         panics |-> ConvertTrendPanics(MockTrend, MockTrendItems, valueType),
         series |-> IF ConvertTrendPanics(MockTrend, MockTrendItems, valueType)
                        THEN <<>>
                        ELSE convertTrend(MockTrend, MockTrendItems, valueType)["1"]]

\* queryNumericDataForItems is called for a query that declares functions,
\* once in a behaviour
QueryNumericDataForItemsOnMock ==
    /\ call = NoCall
    /\ \E functions \in FunctionLists :
        /\ call' = [fn |-> "queryNumericDataForItems", functions |-> functions]
        /\ ret' = queryNumericDataForItems(functions)
    /\ UNCHANGED <<chain, nonPureVars>>

(* --------------------------- specifications ---------------------------- *)

\* a backend that has not been called yet
InitDispatch ==
    /\ qpc = [f \in Flows |-> "idle"]
    /\ qreq = [f \in Flows |-> <<>>]
    /\ qops = [f \in Flows |-> <<>>]
    /\ qraw = [f \in Flows |-> <<>>]
    /\ qresp = [f \in Flows |-> NilResponse]
    /\ qerr = [f \in Flows |-> NoErr]
    /\ qfault = [f \in Flows |-> FALSE]
    /\ dsTokens = <<>>
    /\ requests = 0
    /\ faults = 0

\* no pure function has been applied yet
InitPure ==
    /\ call = NoCall
    /\ ret = NoRet
    /\ chain = NoChain

InitClient ==
    /\ authToken = NoToken
    /\ dsInfo \in ClientDsInfos
    /\ pc = [f \in Flows |-> "idle"]
    /\ method = [f \in Flows |-> "item.get"]
    /\ attempt = [f \in Flows |-> 0]
    /\ sentAuth = [f \in Flows |-> NoToken]
    /\ result = [f \in Flows |-> NilResult]
    /\ err = [f \in Flows |-> NoErr]
    /\ log = [f \in Flows |-> <<>>]
    /\ invocations = 0

\* a backend that has served no request yet
InitCaches ==
    /\ now = 0
    /\ cache = NewCache(TTL, CleanupInterval)
    /\ lastSweep = 0
    /\ datasources = <<>>
    /\ bpc = [f \in Flows |-> "idle"]
    /\ breq = [f \in Flows |-> basicDatasourceInfo]
    /\ bgot = [f \in Flows |-> 0]
    /\ bat = [f \in Flows |-> FALSE]
    /\ queries = 0
    /\ lastSet = <<>>
    /\ obs = NoObs
    /\ cacheOps = 0

\* concurrent calls: no logs
Init ==
    /\ InitClient
    /\ InitPure
    /\ InitDispatch
    /\ history = FALSE
    /\ InitCaches

\* sequential calls: each flow logs its current invocation
InitSeq ==
    /\ InitClient
    /\ InitPure
    /\ InitDispatch
    /\ history = TRUE
    /\ InitCaches

\* the datasource cache of the backend, requests arriving concurrently
InitBackend ==
    /\ InitClient
    /\ InitPure
    /\ InitDispatch
    /\ dsInfo = basicDatasourceInfo
    /\ history = FALSE
    /\ InitCaches

Step(f) ==
    \/ LoopHead(f)
    \/ Login(f)
    \/ LoginReturn(f)
    \/ SendRequest(f)
    \/ RecvResponse(f)
    \/ Return(f)

\* concurrent RawRequest calls sharing one client
Next ==
    \/ \E f \in Flows : Start(f)
    \/ \E f \in Flows : LoopHead(f)
    \/ \E f \in Flows : Login(f)
    \/ \E f \in Flows : LoginReturn(f)
    \/ \E f \in Flows : SendRequest(f)
    \/ \E f \in Flows : RecvResponse(f)
    \/ \E f \in Flows : Return(f)

Spec == Init /\ [][Next]_vars

\* RawRequest calls one after another on one client
NextSeq ==
    \/ \E f \in Flows : StartSeq(f)
    \/ \E f \in Flows : LoopHead(f)
    \/ \E f \in Flows : Login(f)
    \/ \E f \in Flows : LoginReturn(f)
    \/ \E f \in Flows : SendRequest(f)
    \/ \E f \in Flows : RecvResponse(f)
    \/ \E f \in Flows : Return(f)

SpecSeq == InitSeq /\ [][NextSeq]_vars

\* every HTTP exchange ends (the client has a 30s timeout) and a flow inside
\* RawRequest keeps running
SpecSeqFair == SpecSeq /\ \A f \in Flows : WF_vars(Step(f))

\* concurrent requests asking the backend for their datasource
NextBackend ==
    \/ \E f \in Flows : GetCachedStart(f)
    \/ \E f \in Flows : GetCachedLookup(f)
    \/ \E f \in Flows : GetCachedCreate(f)
    \/ \E f \in Flows : GetCachedDone(f)
    \/ Tick
    \/ Sweep

SpecBackend == InitBackend /\ [][NextBackend]_vars

\* a cache used directly: Set, Get, the clock and the janitor in any order
NextCache ==
    \/ SetOp
    \/ GetOp
    \/ Tick
    \/ Sweep

SpecCache == InitBackend /\ [][NextCache]_vars

\* requests served one at a time by the dispatcher, the datasource it
\* finds in the cache and that datasource's client
NextQuery ==
    \/ \E f \in Flows : QueryStart(f)
    \/ \E f \in Flows : GetCachedLookup(f)
    \/ \E f \in Flows : GetCachedCreate(f)
    \/ \E f \in Flows : QueryRoute(f)
    \/ \E f \in Flows : DirectQueryCall(f)
    \/ \E f \in Flows : DirectQueryReturn(f)
    \/ \E f \in Flows : TestConnectionCall(f)
    \/ \E f \in Flows : TestConnectionReturn(f)
    \/ \E f \in Flows : TimeseriesQuery(f)
    \/ \E f \in Flows : LoopHead(f)
    \/ \E f \in Flows : Login(f)
    \/ \E f \in Flows : LoginReturn(f)
    \/ \E f \in Flows : SendRequest(f)
    \/ \E f \in Flows : RecvResponse(f)
    \/ \E f \in Flows : QueryDone(f)
    \/ Tick
    \/ Sweep

SpecQuery == InitBackend /\ [][NextQuery]_vars

\* the functions of the datasource applied to any input, and its operations
\* called on a mocked client as the unit tests call them
NextPure ==
    \/ IsUseTrendCall
    \/ DirectQueryOnMock
    \/ TestConnectionOnMock
    \/ HandleAPIResultCall
    \/ QueryNumericDataForItemsOnMock
    \/ LoginWithDsCall
    \/ HashDatasourceInfoCall

SpecPure == InitBackend /\ [][NextPure]_vars

\* one timeseries query on a datasource whose client talks to a mocked server
NextSeries ==
    \/ QueryNumericItems
    \/ GetAllGroupsReturns
    \/ GetHostsByGroupIDsReturns
    \/ GetAppsByHostIDsReturns
    \/ GetFilteredItemsReturns
    \/ GetHistoryReturns
    \/ GetTrendReturns

SpecSeries == InitBackend /\ [][NextSeries]_vars

(* ------------------------- claims: RawRequest -------------------------- *)

\* number of target calls among the first i entries of log L
TargetCalls(L, i) == Cardinality({j \in 1..i : L[j].ev = "target"})

\* entry i of L is the answer to a target call that failed as unauthorized
\* before the attempt budget was used up
RejectedWithinBudget(L, i) ==
    /\ L[i].ev = "targetResp"
    /\ L[i].err \in UnauthorizedMessages
    /\ TargetCalls(L, i) <= 3

\* C1: a target call that fails with exactly one of the known unauthorized
\* messages (and is not the last attempt allowed) makes the client clear its
\* token, log in again and reissue the target call with the new token; when
\* that next attempt succeeds RawRequest returns its result and no error.
C1_RetryAfterUnauthorized ==
    \A f \in Flows :
        LET L == log[f]
            n == Len(log[f])
        IN  \A i \in 1..n :
                RejectedWithinBudget(L, i) =>
                    /\ n >= i + 1 /\ L[i + 1].ev = "clear"
                    /\ (n = i + 1 => /\ authToken = NoToken
                                     /\ \/ pc[f] \in {"loop", "login"}
                                        \/ pc[f] = "done" /\ ~Credentials(dsInfo).ok)
                    /\ (n >= i + 2 => L[i + 2].ev = "login")
                    /\ (n = i + 2 => pc[f] = "loginWait")
                    /\ (n >= i + 3 /\ L[i + 3].ev = "loginResp" /\ L[i + 3].err = NoErr =>
                            /\ n >= i + 4 /\ L[i + 4].ev = "store"
                            /\ (n = i + 4 => pc[f] = "request" /\ authToken = L[i + 4].tok)
                            /\ (n >= i + 5 => /\ L[i + 5].ev = "target"
                                              /\ L[i + 5].tok = L[i + 4].tok
                                              /\ L[i + 5].tok # NoToken)
                            /\ (n >= i + 6 /\ L[i + 6].ev = "targetResp"
                                    /\ L[i + 6].err = NoErr =>
                                    /\ n = i + 6
                                    /\ pc[f] = "done"
                                    /\ err[f] = NoErr
                                    /\ result[f] = L[i + 6].result))

\* a call whose first attempt was rejected and whose second attempt succeeded
C1_Witness ==
    \E f \in Flows :
        /\ pc[f] = "done"
        /\ err[f] = NoErr
        /\ Len(log[f]) = 9
        /\ log[f][2].ev = "target"
        /\ log[f][3].ev = "targetResp" /\ log[f][3].err = <<"Not authorised.">>
        /\ log[f][4].ev = "clear"
        /\ log[f][5].ev = "login"
        /\ log[f][8].ev = "target"
        /\ log[f][9].ev = "targetResp" /\ log[f][9].err = NoErr
        /\ result[f] = log[f][9].result

\* C2: on a client that holds no token RawRequest logs in first; every target
\* call is issued either with the token held when the attempt started or, when
\* none was held, with the token the login of that attempt returned, and only
\* after that login has returned.
C2_LoginBeforeTarget ==
    \A f \in Flows :
        LET L == log[f]
        IN  \A i \in 1..Len(L) :
                L[i].ev = "target" =>
                    /\ i >= 2
                    /\ L[i].tok # NoToken
                    /\ L[i].hasAuth = (method[f] # "apiinfo.version")
                    /\ \/ /\ L[i - 1].ev = "call"
                          /\ L[i - 1].tok # NoToken
                          /\ L[i].tok = L[i - 1].tok
                       \/ /\ i >= 5
                          /\ L[i - 1].ev = "store"
                          /\ L[i - 1].tok = L[i].tok
                          /\ L[i - 2].ev = "loginResp"
                          /\ L[i - 2].err = NoErr
                          /\ L[i - 2].result = JSONString(L[i].tok)
                          /\ L[i - 3].ev = "login"
                          /\ L[i - 3].tok = NoToken /\ ~L[i - 3].hasAuth
                          /\ L[i - 4].ev \in {"call", "clear"}
                          /\ (L[i - 4].ev = "call" => L[i - 4].tok = NoToken)

\* a call on a client without a token that has logged in and sent its target
\* call with the token obtained
C2_Witness ==
    \E f \in Flows :
        /\ Len(log[f]) >= 5
        /\ log[f][1].ev = "call" /\ log[f][1].tok = NoToken
        /\ log[f][2].ev = "login"
        /\ log[f][3].ev = "loginResp" /\ log[f][3].result = JSONString("tok2")
        /\ log[f][5].ev = "target" /\ log[f][5].tok = "tok2" /\ log[f][5].hasAuth

\* C3 (safety part): one invocation issues at most 4 target calls, and when
\* all 4 were rejected as unauthorized it returns no result and the error of
\* the last attempt.
C3_AtMostFourCalls ==
    \A f \in Flows :
        LET L == log[f]
            n == Len(log[f])
        IN  /\ TargetCalls(L, n) <= 4
            /\ (pc[f] = "done" /\ TargetCalls(L, n) = 4 /\ L[n].ev = "clear") =>
                   /\ L[n - 1].ev = "targetResp"
                   /\ err[f] = L[n - 1].err
                   /\ err[f] \in UnauthorizedMessages
                   /\ result[f] = NilResult

\* C3: every invocation of RawRequest terminates (by returning or by a
\* fault), having issued at most 4 target calls; after 4 rejected attempts it
\* returns the error of the last one.
C3_TerminatesWithinFourAttempts ==
    /\ []C3_AtMostFourCalls
    /\ \A f \in Flows : (pc[f] = "loop") ~> (pc[f] \in {"done", "panicked"})

\* a call that gave up after 4 rejected attempts
C3_Witness ==
    \E f \in Flows :
        /\ pc[f] = "done"
        /\ TargetCalls(log[f], Len(log[f])) = 4
        /\ err[f] = <<"Session terminated, re-login, please.">>
        /\ authToken = NoToken

\* C4: a target call that fails with an error outside the unauthorized set
\* ends the invocation at once: the error is returned unchanged with no
\* result, nothing more is sent, and the token the call was sent with is
\* still the one held.
C4_OtherErrorsEndTheCall ==
    \A f \in Flows :
        LET L == log[f]
            n == Len(log[f])
        IN  \A i \in 1..n :
                (L[i].ev = "targetResp" /\ L[i].err # NoErr
                    /\ L[i].err \notin UnauthorizedMessages) =>
                        /\ i = n
                        /\ pc[f] = "done"
                        /\ err[f] = L[i].err
                        /\ result[f] = NilResult
                        /\ L[i - 1].ev = "target"
                        /\ authToken = L[i - 1].tok

\* a call ended by an API error object after a single attempt
C4_Witness ==
    \E f \in Flows :
        /\ pc[f] = "done"
        /\ Len(log[f]) = 3
        /\ log[f][2].ev = "target"
        /\ log[f][3].ev = "targetResp"
        /\ err[f] = <<"Code ", "0", ": '", "Message", "' ", "Data">>
        /\ authToken = log[f][2].tok
        /\ authToken # NoToken

\* C5: a JSON-RPC response whose error object carries a known unauthorized
\* message is a retry signal: RawRequest clears the token and goes on to the
\* next attempt instead of returning the failure.
C5_ApiUnauthorizedIsRetried ==
    \A f \in Flows :
        LET L == log[f]
            n == Len(log[f])
        IN  \A i \in 1..n :
                (L[i].ev = "targetResp" /\ <<L[i].apiMsg>> \in UnauthorizedMessages
                    /\ TargetCalls(L, i) <= 3) =>
                        /\ n >= i + 1
                        /\ L[i + 1].ev = "clear"
                        /\ pc[f] # "done" \/ n > i + 1

\* C6: whatever the interleaving of the calls sharing the client, a target
\* call other than apiinfo.version is never sent with an empty token.
C6_TargetSentWithToken ==
    \A f \in Flows :
        (pc[f] = "wait" /\ method[f] # "apiinfo.version") => sentAuth[f] # NoToken

\* C7: whatever the interleaving, a flow whose call was rejected clears only
\* the token it sent: a token another flow has stored since is not cleared.
C7_ClearsOnlyTheTokenSent ==
    [][\A f \in Flows :
          (pc[f] = "wait" /\ pc'[f] = "loop" /\ authToken' = NoToken) =>
              authToken \in {sentAuth[f], NoToken}]_vars

(* ----------------- claims: datasource cache and Cache ------------------ *)

\* C8: whatever the interleaving, two getCachedDatasource calls made for the
\* same connection descriptor at the same clock reading (so well within one
\* TTL) are handed the same Datasource instance.
C8_OneInstancePerFingerprint ==
    \A f, g \in Flows :
        (/\ bpc[f] = "returned" /\ bpc[g] = "returned"
         /\ HashDatasourceInfo(breq[f]) = HashDatasourceInfo(breq[g])
         /\ bat[f] /\ bat[g]) =>
            bgot[f] = bgot[g]

\* C9: the step that ends getCachedDatasource leaves the cache mapping the
\* request's fingerprint to the instance returned; after a miss that instance
\* is a new one whose hash is the fingerprint, after a hit it is the instance
\* the cache held and nothing is created or stored.
C9_ReturnedInstanceIsCached ==
    [][\A f \in Flows :
          (bpc[f] \in {"get", "create"} /\ bpc'[f] = "returned") =>
              LET dsInfoHash == HashDatasourceInfo(breq[f])
                  before == CacheGet(cache, dsInfoHash, now)
                  after == CacheGet(cache', dsInfoHash, now')
              IN  /\ after.found
                  /\ after.val = bgot'[f]
                  /\ bgot'[f] \in 1..Len(datasources')
                  /\ bpc[f] = "create" =>
                         /\ Len(datasources') = Len(datasources) + 1
                         /\ bgot'[f] = Len(datasources')
                         /\ datasources'[bgot'[f]].hash = dsInfoHash
                         /\ dsInfoHash \in DOMAIN cache'.items
                         /\ cache'.items[dsInfoHash].object = bgot'[f]
                  /\ bpc[f] = "get" =>
                         /\ before.found
                         /\ bgot'[f] = before.val
                         /\ cache' = cache
                         /\ datasources' = datasources]_vars

\* a hit: a second request for a descriptor is handed the instance created
\* for the first, while a miss for the other descriptor created a second one
C9_Witness ==
    \E f, g \in Flows :
        /\ f # g
        /\ bpc[f] = "returned" /\ bpc[g] = "returned"
        /\ breq[f] = altDatasourceInfo /\ breq[g] = altDatasourceInfo
        /\ bgot[f] = 2 /\ bgot[g] = 2
        /\ Len(datasources) = 2
        /\ datasources[2].hash = HashDatasourceInfo(altDatasourceInfo)
        /\ CacheGet(cache, HashDatasourceInfo(altDatasourceInfo), now).val = 2

\* C10: a Get returns (v, true) exactly when the most recent Set of the key
\* stored v less than one TTL before the Get, and not-found otherwise, whether
\* or not the janitor has deleted the entry.
C10_GetFoundIffUnexpired ==
    obs.valid =>
        /\ obs.found = (obs.set /\ obs.at - obs.setAt < TTL)
        /\ obs.found => obs.val = obs.setVal

\* a Get that found nothing although the expired entry was still stored
C10_Witness ==
    /\ obs.valid
    /\ ~obs.found
    /\ obs.set
    /\ ~obs.swept
    /\ obs.at >= obs.setAt + TTL

(* ------------------------- claims: Datasource -------------------------- *)

\* C11: isUseTrend returns true if and only if the range's from is more
\* than 7 days before now or the span to - from exceeds 4 days
C11_TrendIffOldOrLong ==
    call.fn = "isUseTrend" =>
        LET fromMs == call.timeRange.fromEpochMs
            toMs == call.timeRange.toEpochMs
        IN  ret.val = (\/ fromMs < (call.nowSec - 7 * DaySec) * 1000
                       \/ toMs - fromMs > 4 * DaySec * 1000)

(* ------------------------- claims: Dispatcher -------------------------- *)

\* the query type a request declares: the queryType string of its first
\* query, "query" when it declares none or has no query
DeclaredType(tsdbQueries) ==
    IF Len(tsdbQueries) = 0 THEN "query"
    ELSE IF tsdbQueries[1].queryType.type = "string" THEN tsdbQueries[1].queryType.val
    ELSE "query"

\* Query has read the type of f's request and is past its switch
Routed(f) ==
    /\ qpc[f] \notin {"idle", "getDs"}
    /\ (Len(qreq[f]) = 0 \/ qreq[f][1].valid)

\* C12 as stated: Query routes by the first query's queryType, "zabbixAPI"
\* and "DirectQuery" both to DirectQuery, "query" to TimeseriesQuery,
\* "connectionTest" to TestConnection, one operation per request, the type
\* being "query" when none is declared or no query is present
C12_RoutesByQueryType ==
    \A f \in Flows :
        Routed(f) =>
            LET t == DeclaredType(qreq[f])
            IN  /\ t \in {"zabbixAPI", "DirectQuery"} => qops[f] = <<"DirectQuery">>
                /\ t = "query" => qops[f] = <<"TimeseriesQuery">>
                /\ t = "connectionTest" => qops[f] = <<"TestConnection">>

\* C12 amended: only "zabbixAPI" goes to DirectQuery; "query" goes to
\* TimeseriesQuery and "connectionTest" to TestConnection, exactly one
\* operation each; every other declared type, "DirectQuery" included, invokes
\* no operation; the type is "query" when none is declared or no query is
\* present; no request has more than one operation invoked
C12_RoutesZabbixAPIOnly ==
    \A f \in Flows :
        /\ Len(qops[f]) <= 1
        /\ Routed(f) =>
               LET t == DeclaredType(qreq[f])
               IN  /\ t = "zabbixAPI" => qops[f] = <<"DirectQuery">>
                   /\ t = "query" => qops[f] = <<"TimeseriesQuery">>
                   /\ t = "connectionTest" => qops[f] = <<"TestConnection">>
                   /\ t \notin {"zabbixAPI", "query", "connectionTest"} => qops[f] = <<>>

\* the last request, a "query" query followed by a "zabbixAPI" query, has
\* been answered by TimeseriesQuery alone
C12_Witness ==
    \E f \in Flows :
        /\ qpc[f] = "returned"
        /\ Len(qreq[f]) = 2
        /\ DeclaredType(qreq[f]) = "query"
        /\ qreq[f][2].valid
        /\ qreq[f][2].queryType = JSONString("zabbixAPI")
        /\ qops[f] = <<"TimeseriesQuery">>
        /\ requests = MaxRequests

\* C13: for a request whose query type is not one of the routed types Query
\* invokes no Datasource operation and returns a response with one result
\* whose error is the 'not implemented' message, together with a nil error
C13_UnknownTypeIsAnErrorResponse ==
    \A f \in Flows :
        (/\ qpc[f] = "returned"
         /\ Routed(f)
         /\ DeclaredType(qreq[f]) \notin {"zabbixAPI", "query", "connectionTest"})
            => /\ qops[f] = <<>>
               /\ qraw[f] = <<>>
               /\ ~qfault[f]
               /\ qerr[f] = NoErr
               /\ ~qresp[f].nil
               /\ Len(qresp[f].results) = 1
               /\ qresp[f].results[1].error = <<"Query not implemented">>
               /\ qresp[f].results[1].metaJson = NoText
               /\ qresp[f].results[1].series = <<>>

\* a request of type "zabbixConnectionTest" has been answered that way
C13_Witness ==
    \E f \in Flows :
        /\ qpc[f] = "returned"
        /\ DeclaredType(qreq[f]) = "zabbixConnectionTest"
        /\ qops[f] = <<>>
        /\ qerr[f] = NoErr
        /\ qresp[f] = BuildErrorResponse(<<"Query not implemented">>)

\* the response Query builds when it has recovered from a panic
UnrecoverableResponse ==
    Response(<<QueryResult("zabbixAPI", NoText, <<>>,
                           <<"Unrecoverable error in grafana-zabbix plugin backend">>)>>)

\* a panic of f's call is recovered by the very next step of f, which leaves
\* the cache and the instances alone and the client's token as it was
PanicIsCaught(f) ==
    pc[f] = "panicked" =>
        /\ qpc'[f] = "returned"
        /\ qfault'[f]
        /\ qresp'[f] = UnrecoverableResponse
        /\ pc'[f] = "idle"
        /\ TokenOf(bgot[f])' = authToken
        /\ UNCHANGED <<now, cache, lastSweep, datasources, bgot>>

\* C14: a panic raised anywhere inside Query is caught at the Dispatcher
\* boundary and converted into a response with a single result carrying the
\* generic unrecoverable-error string; it never propagates to the host and
\* does not affect later requests
C14_PanicBecomesErrorResponse ==
    /\ [](\A f \in Flows :
            /\ pc[f] = "panicked" => qpc[f] \in {"DirectQuery", "TestConnection"}
            /\ qfault[f] =>
                   /\ qpc[f] = "returned"
                   /\ pc[f] = "idle"
                   /\ qresp[f] = UnrecoverableResponse)
    /\ [][\A f \in Flows : PanicIsCaught(f)]_vars

\* after a request that panicked, a direct query has been served with the
\* result of its call
C14_Witness ==
    \E f \in Flows :
        /\ faults >= 1
        /\ qpc[f] = "returned"
        /\ ~qfault[f]
        /\ qops[f] = <<"DirectQuery">>
        /\ qerr[f] = NoErr
        /\ ~qresp[f].nil
        /\ qresp[f].results[1].metaJson.type = "array"

\* C15: every Query invocation hands the host a non-nil response envelope,
\* whatever the outcome of the routed operation, also when the operation
\* returns no response and an error and when the first query's JSON cannot
\* be parsed
C15_AlwaysAResponse ==
    \A f \in Flows : qpc[f] = "returned" => ~qresp[f].nil

(* ----------------- claims: DirectQuery, TestConnection ----------------- *)

\* a query whose JSON DirectQuery can unmarshal
Parsable(q) == q.valid /\ q.fits

\* the call DirectQuery is to make for a request
FirstQueryCall(tsdbQueries) ==
    [method |-> tsdbQueries[1].method, params |-> tsdbQueries[1].params]

\* resp has exactly one result, with ref id "zabbixAPI", no series and no error
OnePayloadResult(resp) ==
    /\ ~resp.nil
    /\ Len(resp.results) = 1
    /\ resp.results[1].refId = "zabbixAPI"
    /\ resp.results[1].series = <<>>
    /\ resp.results[1].error = NoErr

\* C16 as stated: DirectQuery on a request with at least one parsable query
\* issues exactly one RawRequest, with the method and params of the first
\* query only, and on success returns one result with ref id "zabbixAPI"
\* whose metaJson is the raw JSON result verbatim
C16_FirstQueryResultVerbatim ==
    (/\ call.fn = "DirectQuery"
     /\ Len(call.queries) >= 1
     /\ \E i \in 1..Len(call.queries) : Parsable(call.queries[i]))
        => /\ ret.raw = <<FirstQueryCall(call.queries)>>
           /\ (call.mock.err = NoErr /\ call.mock.val.type \notin {"nil", "invalid"})
                  => /\ ret.out.err = NoErr
                     /\ OnePayloadResult(ret.out.resp)
                     /\ ret.out.resp.results[1].metaJson = call.mock.val

\* C16 amended: DirectQuery on a request with at least one query, all of them
\* parsable, issues exactly one RawRequest, with the method and params of the
\* first query only, and on success returns one result with ref id
\* "zabbixAPI" whose metaJson is the result encoded again by json.Marshal:
\* the same JSON value (null when the result is absent), not reshaped, with
\* the characters <, > and & written as escapes
C16_FirstQueryResultReencoded ==
    (/\ call.fn = "DirectQuery"
     /\ Len(call.queries) >= 1
     /\ \A i \in 1..Len(call.queries) : Parsable(call.queries[i]))
        => /\ ret.raw = <<FirstQueryCall(call.queries)>>
           /\ (call.mock.err = NoErr /\ call.mock.val.type # "invalid")
                  => /\ ret.out.err = NoErr
                     /\ OnePayloadResult(ret.out.resp)
                     /\ LET metaJson == ret.out.resp.results[1].metaJson
                            raw == IF call.mock.val.type = "nil" THEN JSONNull
                                   ELSE call.mock.val
                        IN  /\ metaJson.type = raw.type
                            /\ UnescapeHTML(metaJson.val) = raw.val

\* a request of two direct queries has been answered with a result that
\* holds an ampersand, written as an escape
C16_Witness ==
    /\ call.fn = "DirectQuery"
    /\ Len(call.queries) = 2
    /\ call.queries[1].method # call.queries[2].method
    /\ call.mock = Ret(JSONNames, NoErr)
    /\ ret.raw = <<FirstQueryCall(call.queries)>>
    /\ ret.out.err = NoErr
    /\ ret.out.resp.results[1].metaJson # call.mock.val

\* C17: DirectQuery fails with no response when no query is provided ('At
\* least one query should be provided'), when any query's JSON fails to
\* parse, or when RawRequest fails, the error then being 'Error in direct
\* query: <cause>'; in the first two cases no remote call is issued
C17_DirectQueryFailures ==
    call.fn = "DirectQuery" =>
        /\ Len(call.queries) = 0
               => /\ ret.out = Out(NilResponse, <<"At least one query should be provided">>)
                  /\ ret.raw = <<>>
        /\ (\E i \in 1..Len(call.queries) : ~Parsable(call.queries[i]))
               => /\ ret.out.resp.nil
                  /\ ret.out.err # NoErr
                  /\ ret.raw = <<>>
        /\ (/\ Len(call.queries) >= 1
            /\ \A i \in 1..Len(call.queries) : Parsable(call.queries[i])
            /\ call.mock.err # NoErr)
               => /\ ret.out.resp.nil
                  /\ ret.out.err = <<"Error in direct query: ">> \o call.mock.err
                  /\ Len(ret.raw) = 1

\* a direct query whose RawRequest failed has been answered with the wrapped
\* error
C17_Witness ==
    /\ call.fn = "DirectQuery"
    /\ Len(call.queries) = 1
    /\ call.mock.err = <<"Test error">>
    /\ ret.out = Out(NilResponse, <<"Error in direct query: ", "Test error">>)

\* resp is an envelope whose payload is an embedded error string
EmbeddedError(resp) ==
    /\ ~resp.nil
    /\ Len(resp.results) = 1
    /\ resp.results[1].error # NoErr

\* resp is an envelope whose payload is the version info
VersionInfo(resp) ==
    /\ OnePayloadResult(resp)
    /\ resp.results[1].metaJson.type = "object"
    /\ DOMAIN resp.results[1].metaJson.val = {"zabbixVersion", "dbConnectorStatus"}

\* C18 as stated: TestConnection always returns a successful envelope (non-nil
\* response, nil error) whose payload is either the version info or an
\* embedded error string; neither an authentication failure nor a failure to
\* parse the version result is a hard failure
C18_AlwaysAnEnvelope ==
    call.fn = "TestConnection" =>
        /\ ret.out.err = NoErr
        /\ EmbeddedError(ret.out.resp) \/ VersionInfo(ret.out.resp)

\* C18 amended: TestConnection returns a successful envelope (non-nil
\* response, nil error) whenever the version call fails, an authentication
\* failure included (payload: an embedded error string), or its result can be
\* unmarshalled into a string (payload: the version info); a result that
\* cannot is a hard failure: nil response, non-nil error
C18_EnvelopeUnlessUnparsable ==
    call.fn = "TestConnection" =>
        /\ call.mock.err # NoErr
               => ret.out.err = NoErr /\ EmbeddedError(ret.out.resp)
        /\ (call.mock.err = NoErr /\ call.mock.val.type \in {"string", "null"})
               => ret.out.err = NoErr /\ VersionInfo(ret.out.resp)
        /\ (call.mock.err = NoErr /\ call.mock.val.type \notin {"string", "null"})
               => ret.out.resp.nil /\ ret.out.err # NoErr

\* a connection test whose version call failed to authenticate has been
\* answered with an envelope
C18_Witness ==
    /\ call.fn = "TestConnection"
    /\ call.mock.err = AuthenticationFailure(<<"Login failed -- no username provided">>)
    /\ ret.out.err = NoErr
    /\ EmbeddedError(ret.out.resp)

\* C19: when the apiinfo.version RawRequest fails, a login failure inside it
\* included, TestConnection returns a nil error and a response whose single
\* result has an empty metaJson and the error string 'Version check failed:
\* <cause>'; when it succeeds with a JSON string, the result's metaJson
\* reports that string as zabbixVersion with a null dbConnectorStatus
C19_VersionOrEmbeddedError ==
    call.fn = "TestConnection" =>
        /\ ret.raw = <<[method |-> "apiinfo.version", params |-> NoParams]>>
        /\ call.mock.err # NoErr
               => /\ ret.out.err = NoErr
                  /\ ~ret.out.resp.nil
                  /\ Len(ret.out.resp.results) = 1
                  /\ ret.out.resp.results[1].metaJson = NoText
                  /\ ret.out.resp.results[1].error
                         = <<"Version check failed: ">> \o call.mock.err
        /\ (call.mock.err = NoErr /\ call.mock.val.type = "string")
               => /\ ret.out.err = NoErr
                  /\ VersionInfo(ret.out.resp)
                  /\ LET metaJson == ret.out.resp.results[1].metaJson.val
                     IN  /\ UnescapeHTML(metaJson.zabbixVersion) = call.mock.val.val
                         /\ metaJson.dbConnectorStatus = "null"

\* a connection test whose version call returned "4.0.0" has been answered
\* with that version
C19_Witness ==
    /\ call.fn = "TestConnection"
    /\ call.mock = Ret(JSONString("4.0.0"), NoErr)
    /\ ret.out.err = NoErr
    /\ ret.out.resp.results[1].metaJson
           = [type |-> "object",
              val |-> [zabbixVersion |-> "4.0.0", dbConnectorStatus |-> "null"]]

\* C20: when the apiinfo.version call succeeds but its result is not a JSON
\* string, TestConnection returns a nil response and the error 'Internal
\* error while parsing response from Zabbix'
C20_NotAStringIsAnError ==
    (/\ call.fn = "TestConnection"
     /\ call.mock.err = NoErr
     /\ call.mock.val.type # "string")
        => ret.out = Out(NilResponse, <<"Internal error while parsing response from Zabbix">>)

(* --------------------- claims: handleAPIResult ------------------------- *)

\* C21: handleAPIResult returns the result field with no error for a response
\* without an error object; returns no result and the error "Code <n>:
\* '<message>' <data>" whenever an error object is present, even if a result
\* is also present; returns no result and a parse error for malformed JSON;
\* it never returns both a result and an error
C21_ResultOrError ==
    call.fn = "handleAPIResult" =>
        LET response == call.response
            out == ret.out
        IN  /\ ~out.panic
            /\ ~response.valid => out.val = NilResult /\ out.err # NoErr
            /\ (response.valid /\ response.error.present)
                   => /\ out.val = NilResult
                      /\ out.err = <<"Code ", response.error.code, ": '",
                                     response.error.message, "' ", response.error.data>>
            /\ (response.valid /\ ~response.error.present)
                   => out.val = response.result /\ out.err = NoErr
            /\ ~(out.val # NilResult /\ out.err # NoErr)

(* ------------------- claims: the timeseries query ---------------------- *)

\* the query has ended with its series
Produced == chain.pc = "done" /\ chain.err = NoErr

\* the one-to-one assignments of n series to n items
Assignments(n) ==
    {a \in [1..n -> 1..n] : \A i, j \in 1..n : i # j => a[i] # a[j]}

\* C22: a timeseries query produces exactly one series per resolved item,
\* including items for which no point was fetched, each named "<host name>
\* <item name>" from that item's host and name; the number of series equals
\* the number of resolved items
C22_OneSeriesPerItem ==
    Produced =>
        /\ Len(chain.series) = Len(chain.items)
        /\ \E a \in Assignments(Len(chain.items)) :
               \A k \in 1..Len(chain.series) :
                   chain.series[k].name
                       = <<chain.items[a[k]].hosts[1].name, " ", chain.items[a[k]].name>>

\* three items of two hosts were resolved; one of them has points, another
\* has none, and each has its series
C22_Witness ==
    /\ Produced
    /\ Len(chain.items) = 3
    /\ Len(chain.series) = 3
    /\ \E k \in 1..3 : chain.series[k].points = <<>>
    /\ \E k \in 1..3 : Len(chain.series[k].points) = 2
    /\ \E j, k \in 1..3 : chain.series[j].name[1] # chain.series[k].name[1]

\* the points of a series are in ascending order of their timestamp
Ascending(points) ==
    \A i, j \in 1..Len(points) : i < j => points[i].timestamp <= points[j].timestamp

\* every answer to history.get or trend.get the query got was ascending by
\* clock
AnswersAscendingByClock ==
    \A i, j \in 1..Len(chain.history) :
        (i < j /\ chain.history[i].itemid = chain.history[j].itemid)
            => chain.history[i].clock <= chain.history[j].clock

\* C23: for every resolved item the points of its series are in ascending
\* order of the emitted millisecond timestamp, given that each history.get or
\* trend.get answer is ascending by clock, also when several history calls
\* are concatenated
C23_PointsAscending ==
    (Produced /\ AnswersAscendingByClock) =>
        \A k \in 1..Len(chain.series) : Ascending(chain.series[k].points)

\* what a result carries: a raw JSON payload, time series, an error string
Carried(qr) ==
    {kind \in {"metaJson", "series", "error"} :
        \/ kind = "metaJson" /\ qr.metaJson # NoText
        \/ kind = "series" /\ qr.series # <<>>
        \/ kind = "error" /\ qr.error # NoErr}

StageOrder ==
    {<<"", "hostgroup.get">>, <<"hostgroup.get", "host.get">>,
     <<"host.get", "application.get">>, <<"host.get", "item.get">>,
     <<"application.get", "item.get">>, <<"item.get", "history.get">>,
     <<"item.get", "trend.get">>, <<"history.get", "history.get">>}

\* the filter applied to the answer of the call a query waits for, at the
\* group, host and application stage, and the error of compiling it
StageFilter(c) ==
    CASE c.pc = "getGroups" -> c.req.groupFilter
      [] c.pc = "getHosts" -> c.req.hostFilter
      [] c.pc = "getApps" -> c.req.appFilter
      [] OTHER -> ""
StageFilterError(c) == regexpCompileError(StageFilter(c))

\* the method of the last call of a query, empty before the first
LastMethod(c) == IF c.calls = <<>> THEN "" ELSE LastCall(c).method

\* C25: within one timeseries query the remote calls are issued one after
\* another in the order hostgroup.get, host.get, application.get (when
\* issued), item.get, then history.get or trend.get, each only after the
\* previous one returned; if a stage fails, by a remote error or by a filter
\* compile error at the group, host or application stage, no later call is
\* issued and the query fails with that error
C25_InOrderOrFailed ==
    [][/\ chain.err # NoErr => chain' = chain
       /\ Len(chain'.calls) \in {Len(chain.calls), Len(chain.calls) + 1}
       /\ \A k \in 1..Len(chain.calls) :
              /\ chain'.calls[k].method = chain.calls[k].method
              /\ chain'.calls[k].params = chain.calls[k].params
       /\ Len(chain'.calls) > Len(chain.calls) =>
              /\ \A k \in 1..Len(chain.calls) : chain'.calls[k].returned
              /\ <<LastMethod(chain), LastMethod(chain')>> \in StageOrder
              /\ StageFilterError(chain) = NoErr
              /\ chain'.err = NoErr
       /\ StageFilterError(chain) # NoErr =>
              /\ chain'.calls = Returned(chain).calls
              /\ chain'.pc = "done"
              /\ chain'.err \in RemoteErrors \cup {StageFilterError(chain)}
       /\ chain'.err \in RemoteErrors =>
              /\ chain'.calls = Returned(chain).calls
              /\ chain'.pc = "done"]_vars

\* the application filter did not compile: the query failed with that error
\* after hostgroup.get, host.get and application.get, each returned, and no
\* item.get was issued
C25_Witness ==
    /\ chain.pc = "done"
    /\ chain.err = regexpCompileError("fooba(r")
    /\ Len(chain.calls) = 3
    /\ [k \in 1..3 |-> chain.calls[k].method]
           = <<"hostgroup.get", "host.get", "application.get">>
    /\ \A k \in 1..3 : chain.calls[k].returned

\* the item.get calls of the query
ItemCalls == SelectSeq(chain.calls, LAMBDA rc : rc.method = "item.get")

\* C26: if at least one host matched, item.get is scoped to exactly the
\* matched host IDs; otherwise, only if at least one application matched, it
\* is scoped to exactly those application IDs; when neither hosts nor
\* applications matched, no unscoped item fetch is issued and the resolved
\* item set is empty
C26_ItemFetchScoped ==
    /\ \A k \in 1..Len(ItemCalls) :
           LET params == ItemCalls[k].params
           IN  /\ chain.hosts # <<>> =>
                      /\ params.hostids = HostIDs(chain.hosts)
                      /\ params.applicationids = <<>>
               /\ chain.hosts = <<>> =>
                      /\ params.hostids = <<>>
                      /\ params.applicationids = AppIDs(chain.apps)
                      /\ params.applicationids # <<>>
    /\ (chain.pc = "done" /\ chain.hosts = <<>> /\ chain.apps = <<>>) => chain.items = <<>>

\* C27: the application stage runs for every timeseries query after the host
\* stage, also when at least one host matched: before item.get is issued,
\* application.get has fetched the applications of the matched host IDs and
\* they have been filtered by the application pattern
C27_AppStageAlways ==
    \A k \in 1..Len(chain.calls) :
        chain.calls[k].method = "item.get" =>
            /\ k > 1
            /\ chain.calls[k - 1].method = "application.get"
            /\ chain.calls[k - 1].returned
            /\ chain.calls[k - 1].params.hostids = HostIDs(chain.hosts)
            /\ chain.apps = FilterByName(ServerApps(chain.calls[k - 1].params),
                                         chain.req.appFilter).val

\* getItems has returned its items: item.get was answered without an error
ItemsResolved ==
    /\ Len(ItemCalls) = 1
    /\ ItemCalls[1].returned
    /\ LastMethod(chain) # "item.get" \/ chain.err = NoErr

\* the positions of the fetched items that are enabled and whose name the
\* item pattern matches
Kept ==
    {k \in 1..Len(chain.fetched) :
        /\ chain.fetched[k].status = "0"
        /\ regexpCompileError(chain.req.itemFilter) = NoErr
        /\ regexpFind(chain.req.itemFilter, chain.fetched[k].name)}

\* the i-th of these positions
NthKept(i) == CHOOSE k \in Kept : Cardinality({j \in Kept : j <= k}) = i

\* C28: the resolved items are exactly the fetched items whose status is "0"
\* and whose name matches the item pattern, in fetch order; a malformed item
\* pattern never fails the resolution: the affected items are left out, a
\* warning is logged for each and getItems returns successfully
C28_EnabledMatchingItems ==
    /\ ItemsResolved =>
           /\ Len(chain.items) = Cardinality(Kept)
           /\ \A i \in 1..Len(chain.items) : chain.items[i] = chain.fetched[NthKept(i)]
           /\ regexpCompileError(chain.req.itemFilter) # NoErr =>
                  /\ chain.items = <<>>
                  /\ chain.warned
                         = Cardinality({k \in 1..Len(chain.fetched) :
                                           chain.fetched[k].status = "0"})
    /\ Len(ItemCalls) > 0 => chain.err \in RemoteErrors \cup {NoErr}

\* the item pattern did not compile: three enabled items were fetched, three
\* warnings logged, no item resolved, and the query ended without an error
C28_Witness ==
    /\ ItemsResolved
    /\ chain.pc = "done"
    /\ chain.err = NoErr
    /\ regexpCompileError(chain.req.itemFilter) # NoErr
    /\ Len(chain.fetched) = 4
    /\ chain.warned = 3
    /\ chain.items = <<>>

\* a filter wrapped in /.../, and the filter of the stage whose call was the
\* last of the query
DelimiterWrapped(filter) == filter \in {"/fooba(r/", "/^foo.+/"}
LastStageFilter(c) ==
    CASE LastMethod(c) = "hostgroup.get" -> c.req.groupFilter
      [] LastMethod(c) = "host.get" -> c.req.hostFilter
      [] LastMethod(c) = "application.get" -> c.req.appFilter
      [] OTHER -> ""

\* C29: at every stage an empty filter matches all candidates; a filter
\* wrapped in /.../ is compiled as a regular expression, and an invalid one
\* fails the stage; a filter that is not wrapped is a literal and never
\* yields an error, even if it would be an invalid regular expression
C29_TwoModeDispatch ==
    /\ (chain.calls # <<>> /\ chain.err # NoErr /\ chain.err \notin RemoteErrors)
           => DelimiterWrapped(LastStageFilter(chain))
    /\ ~DelimiterWrapped(chain.req.itemFilter) => chain.warned = 0
    /\ (chain.req.groupFilter = "" /\ Len(chain.calls) > 1) => chain.groups = ZabbixGroups
    /\ (chain.req.groupFilter = "/fooba(r/" /\ Len(chain.calls) > 0)
           => Len(chain.calls) = 1
    /\ (chain.req.groupFilter = "/^foo.+/" /\ Len(chain.calls) > 1)
           => chain.groups = SelectSeq(ZabbixGroups, LAMBDA g : g.name = "foobar")

\* the history.get and trend.get calls of a query
HistoryCalls(c) == SelectSeq(c.calls, LAMBDA rc : rc.method = "history.get")
TrendCalls(c) == SelectSeq(c.calls, LAMBDA rc : rc.method = "trend.get")

\* the IDs of the resolved items of one value type, in the items' order
IDsOfType(c, valueType) ==
    LET own == SelectSeq(c.items, LAMBDA i : i.value_type = valueType)
    IN  [k \in 1..Len(own) |-> own[k].itemid]

\* GetHistory, GetTrend has returned its points
FetchDone(c) == c.pc \in {"done", "panicked"} /\ c.err = NoErr

\* what C30 says of the calls a query has issued so far
C30_Calls(c) ==
    LET hc == HistoryCalls(c)
        tc == TrendCalls(c)
    IN  /\ \A k \in 1..Len(hc) :
               /\ \E i \in 1..Len(c.items) : c.items[i].value_type = hc[k].params.history
               /\ hc[k].params.itemids = IDsOfType(c, hc[k].params.history)
        /\ \A j, k \in 1..Len(hc) : j # k => hc[j].params.history # hc[k].params.history
        /\ (FetchDone(c) /\ ~isUseTrend(c.req.timeRange, NowSec)) =>
               /\ Len(hc) = Cardinality({c.items[i].value_type : i \in 1..Len(c.items)})
               /\ Len(tc) = 0
        /\ \A k \in 1..Len(tc) :
               /\ tc[k].params.itemids = [i \in 1..Len(c.items) |-> c.items[i].itemid]
               /\ tc[k].params.history = NoHistory
        /\ (FetchDone(c) /\ isUseTrend(c.req.timeRange, NowSec)) =>
               /\ Len(tc) = 1
               /\ Len(hc) = 0

\* C30: GetHistory issues exactly one history.get per distinct value_type
\* among the given items, each carrying exactly the IDs of the items of that
\* type and that type as the history parameter, and returns the
\* concatenation of all answers; GetTrend issues exactly one trend.get
\* carrying the IDs of all items, whatever their types
C30_OneCallPerValueType ==
    [][/\ C30_Calls(chain')
       /\ (chain.pc = "getHistory" /\ chain'.err = NoErr) =>
              \E answer \in ServerHistory(LastCall(chain).params) :
                  chain'.history = chain.history \o answer
       /\ (chain.pc = "getTrend" /\ chain'.err = NoErr) =>
              chain'.history \in ServerTrend(LastCall(chain).params)
       /\ chain.pc \notin {"getHistory", "getTrend"} => chain'.history = <<>>]_vars

\* items of the value types 0 and 3 were resolved: two history.get calls were
\* issued, one per type, and the points of both answers were returned
C30_Witness ==
    /\ FetchDone(chain)
    /\ {chain.items[i].value_type : i \in 1..Len(chain.items)} = {0, 3}
    /\ Len(HistoryCalls(chain)) = 2
    /\ \E j, k \in 1..2 :
           /\ HistoryCalls(chain)[j].params.itemids = <<"1">>
           /\ HistoryCalls(chain)[j].params.history = 0
           /\ HistoryCalls(chain)[k].params.itemids = <<"2">>
           /\ HistoryCalls(chain)[k].params.history = 3
    /\ {chain.history[i].itemid : i \in 1..Len(chain.history)} = {"1", "2"}

(* ------------------- claims: the statistic of trends ------------------- *)

\* the values of the mocked trend points for one statistic
MockTrendValues(statistic) ==
    [k \in 1..Len(MockTrend) |->
        CASE statistic = "min" -> MockTrend[k].value_min
          [] statistic = "avg" -> MockTrend[k].value_avg
          [] statistic = "max" -> MockTrend[k].value_max]

\* the statistic a query declares: the parameter of its consolidateBy, else
\* its last trend-value function, else avg
DeclaredNames(functions) ==
    {k \in 1..Len(functions) : functions[k].name \in {"min", "avg", "max"}}
DeclaredStatistic(functions) ==
    IF \E k \in 1..Len(functions) :
           functions[k].name = "consolidateBy" /\ Len(functions[k].params) > 0
        THEN (CHOOSE f \in Elems(functions) :
                  f.name = "consolidateBy" /\ Len(f.params) > 0).params[1]
    ELSE IF DeclaredNames(functions) = {} THEN "avg"
    ELSE functions[CHOOSE k \in DeclaredNames(functions) :
                       \A j \in DeclaredNames(functions) : j <= k].name

\* C31: the statistic read from trend points is the one the query declares:
\* min, avg or max selects value_min, value_avg or value_max, avg is used
\* when none is declared, and a declared consolidateBy overrides that choice
C31_DeclaredStatistic ==
    ret.fn = "queryNumericDataForItems" =>
        /\ ~ret.panics
        /\ [k \in 1..Len(ret.series.points) |-> ret.series.points[k].value]
               = MockTrendValues(DeclaredStatistic(call.functions))

(* -------------------------- claims: the login -------------------------- *)

\* the username and the password of a descriptor: the secure value when the
\* key is in the secure map, the value of the JSON config otherwise
ResultingUsername(ds) ==
    IF ds.secure.username.present THEN ds.secure.username.val ELSE ds.jsonData.username
ResultingPassword(ds) ==
    IF ds.secure.password.present THEN ds.secure.password.val ELSE ds.jsonData.password

\* the one user.login request with the credentials of a descriptor
OneLoginCall(ds) ==
    <<[jsonrpc |-> "2.0", id |-> 2, method |-> "user.login",
       params |-> [user |-> ResultingUsername(ds), password |-> ResultingPassword(ds)],
       hasAuth |-> FALSE, auth |-> ""]>>

\* the token the server's answer carries: its result when that is a string
AnsweredToken(x) ==
    IF x.kind = "response" /\ x.status = 200 /\ x.body.valid /\ ~x.body.null
           /\ ~x.body.error.present /\ x.body.result.type = "string"
        THEN x.body.result.val
        ELSE ""

\* C32 as stated: loginWithDs fails without a user.login call if the
\* resulting username or password is empty, and otherwise issues exactly
\* one user.login call with those credentials and returns its token
C32_LoginUnlessEmpty ==
    ret.fn = "loginWithDs" =>
        IF ResultingUsername(call.ds) = "" \/ ResultingPassword(call.ds) = ""
            THEN ret.out.sent = <<>> /\ ret.out.err # NoErr
            ELSE /\ ret.out.sent = OneLoginCall(call.ds)
                 /\ ret.out.err = NoErr => ret.out.auth = AnsweredToken(call.x)

\* C32, amended: loginWithDs fails without a user.login call if the JSON
\* config does not parse, if the resulting username or password is empty,
\* or if the URL does not parse; otherwise it sends exactly one user.login
\* with those credentials and no auth field, and returns the token of the
\* answer, or the error of the call
C32_LoginUnlessEmptyOrUnparsable ==
    ret.fn = "loginWithDs" =>
        IF \/ ~call.ds.jsonData.valid
           \/ ResultingUsername(call.ds) = ""
           \/ ResultingPassword(call.ds) = ""
           \/ call.ds.url = "://bad"
            THEN /\ ret.out.sent = <<>>
                 /\ ret.out.err # NoErr
                 /\ ret.out.auth = ""
                 /\ (call.ds.jsonData.valid /\ ResultingUsername(call.ds) = "")
                        => ret.out.err = <<"Login failed -- no username provided">>
                 /\ (call.ds.jsonData.valid /\ ResultingUsername(call.ds) # ""
                        /\ ResultingPassword(call.ds) = "")
                        => ret.out.err = <<"Login failed -- no password provided">>
            ELSE /\ ret.out.sent = OneLoginCall(call.ds)
                 /\ (ret.out.err = NoErr /\ ~ret.out.panic)
                        => ret.out.auth = AnsweredToken(call.x)
                 /\ AnsweredToken(call.x) # ""
                        => (ret.out.err = NoErr /\ ret.out.auth = AnsweredToken(call.x))

\* the username comes from the JSON config, the password from the secure
\* map although the config holds one too, and the login returned the token
\* of the answer
C32_Witness ==
    /\ ret.fn = "loginWithDs"
    /\ ~call.ds.secure.username.present
    /\ call.ds.secure.password = [present |-> TRUE, val |-> "secret"]
    /\ call.ds.jsonData = JsonData(TRUE, "username", "password")
    /\ ret.out.sent = OneLoginCall(call.ds)
    /\ ret.out.sent[1].params = [user |-> "username", password |-> "secret"]
    /\ ret.out.auth = "tok1"
    /\ ret.out.err = NoErr

(* --------------------- claims: the auth field -------------------------- *)

\* C33: the JSON-RPC request carries the auth field exactly when a non-empty
\* token is supplied and the method is not apiinfo.version: the version
\* check and user.login never carry a token, while a version check issued
\* through RawRequest on a client without a token is still preceded by a
\* login
C33_AuthUnlessVersionCheck ==
    \A f \in Flows :
        LET L == log[f]
        IN  \A i \in 1..Len(L) :
                /\ L[i].ev = "login" => ~L[i].hasAuth
                /\ L[i].ev = "target" =>
                       /\ L[i].hasAuth
                              = (L[i].tok # NoToken /\ method[f] # "apiinfo.version")
                       /\ method[f] = "apiinfo.version" => ~L[i].hasAuth
                       /\ (L[1].ev = "call" /\ L[1].tok = NoToken) =>
                              \E j \in 2..(i - 1) : L[j].ev = "login"

\* a version check on a client without a token: it logged in, got tok1 and
\* sent apiinfo.version without the auth field
C33_Witness ==
    \E f \in Flows :
        /\ method[f] = "apiinfo.version"
        /\ Len(log[f]) >= 5
        /\ log[f][1].ev = "call" /\ log[f][1].tok = NoToken
        /\ log[f][2].ev = "login" /\ ~log[f][2].hasAuth
        /\ log[f][4].ev = "store" /\ log[f][4].tok = "tok1"
        /\ log[f][5].ev = "target" /\ log[f][5].tok = "tok1" /\ ~log[f][5].hasAuth

(* ----------------------- claims: token reuse --------------------------- *)

\* how many entries of a kind the log of a flow holds
Count(f, ev) == Cardinality({i \in 1..Len(log[f]) : log[f][i].ev = ev})

\* how many attempts of the invocation of a flow started with an empty
\* token: the first when the client held none, and one after each rejected
\* attempt but the fourth
EmptyStarts(f) ==
    (IF log[f][1].tok = NoToken THEN 1 ELSE 0)
        + Count(f, "clear")
        - (IF attempt[f] > MaxAttempt THEN 1 ELSE 0)

\* C34 as stated: in calls made one after another the number of user.login
\* calls equals the number of times a call started an attempt with an empty
\* token
C34_LoginsEqualEmptyStarts ==
    \A f \in Flows :
        pc[f] = "done" => Count(f, "login") = EmptyStarts(f)

\* C34, amended: once a token is held and accepted no further login is
\* issued; with credentials and a URL loginWithDs can use, the number of
\* user.login calls equals the number of attempts started with an empty
\* token; without them such an attempt issues no user.login and ends the
\* call
C34_LoginsEqualUsableEmptyStarts ==
    \A f \in Flows :
        pc[f] = "done" =>
            /\ (log[f][1].tok # NoToken /\ Count(f, "clear") = 0) => Count(f, "login") = 0
            /\ CanLogin(dsInfo) => Count(f, "login") = EmptyStarts(f)
            /\ ~CanLogin(dsInfo) =>
                   /\ Count(f, "login") = 0
                   /\ EmptyStarts(f) = 1
                   /\ Count(f, "target") = 0

\* the second call on the client found the token of the first call's login,
\* the server accepted it, and the call ended without a login
C34_Witness ==
    \E f \in Flows :
        /\ invocations = 2
        /\ pc[f] = "done"
        /\ err[f] = NoErr
        /\ log[f][1].ev = "call" /\ log[f][1].tok = "tok1"
        /\ Len(log[f]) = 3
        /\ log[f][2].ev = "target" /\ log[f][2].tok = "tok1"
        /\ Count(f, "login") = 0

(* ---------------------- claims: a failed login ------------------------- *)

\* the cause loginWithDs fails with before it sends anything, for the
\* descriptor of the client
UnsentLoginCause ==
    IF ~dsInfo.jsonData.valid THEN <<"invalid character">>
    ELSE IF dsInfo.jsonData.username = "" /\ ~dsInfo.secure.username.present
        THEN <<"Login failed -- no username provided">>
    ELSE IF dsInfo.jsonData.password = "" /\ ~dsInfo.secure.password.present
        THEN <<"Login failed -- no password provided">>
    ELSE <<"parse ", dsInfo.url, ": missing protocol scheme">>

\* C35: a login failure inside RawRequest, on the first attempt or on a
\* re-login after the token was cleared, ends the call immediately: no
\* further target call is issued, no more login is attempted, the client's
\* token stays empty, and the returned error is the login error wrapped as
\* 'Authentication failure: <cause>'
C35_LoginFailureEndsTheCall ==
    \A f \in Flows :
        LET L == log[f]
            n == Len(log[f])
        IN  /\ \A i \in 1..n :
                   (L[i].ev = "loginResp" /\ L[i].err # NoErr) =>
                       /\ i = n
                       /\ pc[f] = "done"
                       /\ result[f] = NilResult
                       /\ err[f] = <<"Authentication failure: ">> \o L[i].err
                       /\ authToken = NoToken
            /\ (pc[f] = "done" /\ attempt[f] <= MaxAttempt
                    /\ \/ L[n].ev = "call" /\ L[n].tok = NoToken
                       \/ L[n].ev = "clear") =>
                   /\ result[f] = NilResult
                   /\ err[f] = <<"Authentication failure: ">> \o UnsentLoginCause
                   /\ authToken = NoToken

\* the first attempt was rejected as unauthorized, the token was cleared,
\* and the login of the second attempt failed: the call ended there
C35_Witness ==
    \E f \in Flows :
        /\ pc[f] = "done"
        /\ Len(log[f]) = 9
        /\ log[f][5].ev = "target"
        /\ log[f][7].ev = "clear"
        /\ log[f][8].ev = "login"
        /\ log[f][9].ev = "loginResp"
        /\ log[f][9].err = <<"Error returned from Zabbix service: ", "500">>
        /\ err[f] = <<"Authentication failure: ", "Error returned from Zabbix service: ", "500">>
        /\ authToken = NoToken

(* --------------------- claims: the life of an instance ----------------- *)

\* when the instance stored under fingerprint k was created
CreatedAt(k) == lastSet[k].at

\* C36: a hit in getCachedDatasource leaves the cache as it was, entry and
\* expiry alike, and creates nothing; every entry expires one TTL after the
\* instance it holds was created, so a lookup hits only within one TTL of
\* that creation however often the instance was handed out, and the lookup
\* after it misses and creates a new instance whose client holds no token.
C36_HitLeavesCacheUnchanged ==
    [][/\ \A k \in DOMAIN cache'.items :
             /\ k \in DOMAIN lastSet'
             /\ cache'.items[k].object = lastSet'[k].val
             /\ cache'.items[k].expiration = lastSet'[k].at + TTL
       /\ \A f \in Flows :
             LET dsInfoHash == HashDatasourceInfo(breq[f])
             IN  /\ (bpc[f] = "get" /\ bpc'[f] = "returned") =>
                        /\ cache' = cache
                        /\ datasources' = datasources
                        /\ dsTokens' = dsTokens
                        /\ now < CreatedAt(dsInfoHash) + TTL
                        /\ bgot'[f] = lastSet[dsInfoHash].val
                 /\ (bpc[f] = "get" /\ bpc'[f] = "create") =>
                        \/ dsInfoHash \notin DOMAIN lastSet
                        \/ now >= CreatedAt(dsInfoHash) + TTL
                 /\ (bpc[f] = "create" /\ bpc'[f] = "returned") =>
                        /\ bgot'[f] = Len(datasources) + 1
                        /\ bgot'[f] \notin 1..Len(datasources)
                        /\ \/ bgot'[f] \notin DOMAIN dsTokens'
                           \/ dsTokens'[bgot'[f]] = NoToken
                        /\ cache'.items[dsInfoHash].expiration = now + TTL]_vars

\* a hit one tick after the creation: the second request is handed the
\* instance of the first, whose client holds a token, and the entry still
\* expires one TTL after the creation
C36_Witness ==
    \E f \in Flows :
        LET dsInfoHash == HashDatasourceInfo(breq[f])
        IN  /\ bpc[f] = "returned"
            /\ requests = 2
            /\ Len(datasources) = 1
            /\ bgot[f] = 1
            /\ TokenOf(1) # NoToken
            /\ now = 1
            /\ CreatedAt(dsInfoHash) = 0
            /\ cache.items[dsInfoHash].expiration = TTL

(* ------------------ claims: the points of the series ------------------- *)

\* the number of points over all series
RECURSIVE TotalPoints(_)
TotalPoints(series) ==
    IF series = <<>> THEN 0 ELSE Len(series[1].points) + TotalPoints(Tail(series))

\* the points fetched for item ID id
FetchedFor(id) == SelectSeq(chain.history, LAMBDA p : p.itemid = id)

\* C37: whatever points were fetched, points of items that were not resolved
\* included, the conversion ends without a fault, the series hold as many
\* points as were fetched, and the series of each resolved item holds as many
\* as were fetched with its item ID.
C37_PointsPartitioned ==
    (FetchDone(chain) /\ \A k \in 1..Len(chain.items) : Len(chain.items[k].hosts) > 0) =>
        /\ chain.pc = "done"
        /\ TotalPoints(chain.series) = Len(chain.history)
        /\ \E a \in Assignments(Len(chain.items)) :
               \A k \in 1..Len(chain.series) :
                   Len(chain.series[k].points) = Len(FetchedFor(chain.items[a[k]].itemid))

(* ------------------ claims: the bounds of the fetch -------------------- *)

\* the history.get and trend.get calls of the query
DataCalls == SelectSeq(chain.calls, LAMBDA rc : rc.method \in {"history.get", "trend.get"})

\* the request's time range in epoch seconds
EpochSeconds(timeRange) ==
    [time_from |-> timeRange.fromEpochMs \div 1000,
     time_till |-> timeRange.toEpochMs \div 1000]

\* C38: every history.get and every trend.get carries the request's
\* fromEpochMs and toEpochMs divided by 1000 as time_from and time_till, so
\* that both calls send the same bounds for the same time range.
C38_BoundsInEpochSeconds ==
    \A k \in 1..Len(DataCalls) :
        /\ DataCalls[k].params.time_from = EpochSeconds(chain.req.timeRange).time_from
        /\ DataCalls[k].params.time_till = EpochSeconds(chain.req.timeRange).time_till
        /\ HistoryTimeBounds(chain.req.timeRange) = TrendTimeBounds(chain.req.timeRange)

(* ------------------ claims: the connection fingerprint ----------------- *)

\* C39: the fingerprints of two requests are equal exactly when their
\* descriptors are: the same descriptor gives the same fingerprint on every
\* call, and descriptors that differ in the id, the org, the name, the URL,
\* the JSON settings or a decrypted secret give different cache keys (two
\* inputs with one SHA-1 digest aside).
C39_FingerprintOfDescriptor ==
    call.fn = "HashDatasourceInfo" =>
        ((call.ds[1] = call.ds[2]) <=> (ret.out[1] = ret.out[2]))

\* two requests whose descriptors differ in the decrypted password only
C39_Witness ==
    /\ call.fn = "HashDatasourceInfo"
    /\ call.ds[1] = [basicDatasourceInfo EXCEPT
                         !.secure.password = [present |-> TRUE, val |-> "secret"]]
    /\ call.ds[2] = [basicDatasourceInfo EXCEPT
                         !.secure.password = [present |-> TRUE, val |-> ""]]
    /\ ret.out[1] # ret.out[2]
    /\ ret.out[1] = HashDatasourceInfo(call.ds[1])

====
